---------------------------- MODULE Spec2Model ----------------------------
(***************************************************************************)
(* A model of midi_fundsp: the voice pools (MonoPlayer, io.rs), the stereo *)
(* player and its render loop (StereoPlayer, io.rs), the input thread and  *)
(* the message queue between them, and the older StereoSynth of lib.rs.    *)
(*                                                                         *)
(* Numbers that are floating point in the program are kept as the exact    *)
(* quantity that determines them: a frequency 440 * 2^(s/12) Hz as the     *)
(* semitone offset s, a velocity gain v/127 as the pair <<v, 127>>, a bend *)
(* factor 2^(e/(8192*12)) as the exponent numerator e.                     *)
(***************************************************************************)
EXTENDS Integers, Sequences, FiniteSets, TLC

VARIABLES
    sounds,      \* StereoPlayer.sounds: pool index 0..1 -> MonoPlayer
    claimOrder,  \* history: the claimed slots of pool 0, oldest claim first
    midi_msgs,   \* the SegQueue shared by the producers and the render loop
    quit,        \* the AtomicCell<bool> handed to the input thread
    pcIn,        \* position of the thread of start_generic_input_thread
    pcOut,       \* position of the thread of start_output_thread
    warm,        \* number of warm-up messages pushed so far by warm_up
    stream,      \* TRUE while run_synth holds an open, playing stream
    opened,      \* history: number of streams opened by get_stream
    enqueued,    \* history: every message pushed onto midi_msgs, in push order
    resets,      \* history: number of reset messages pushed by the input thread
    applied,     \* history: every message popped and decoded, in order
    synth,       \* lib.rs StereoSynth.sounds: pool index 0..1 -> MonoSynth
    synth_msgs,  \* lib.rs: the SegQueue read by StereoSynth
    running,     \* lib.rs run_synth: the local `running`
    pcSynth,     \* lib.rs: position of run_synth / handle_messages
    synthOpened, \* lib.rs history: number of streams opened
    synthPopped, \* lib.rs history: every message popped, in order
    heard,       \* what the output callback read when it last rendered
    cell,        \* a SharedMidiState written by on() store by store
    onPc,        \* SharedMidiState::on: the next store, 0 when no call runs
    onArg,       \* SharedMidiState::on: its arguments <<pitch, velocity>>
    seen,        \* the fields of cell a reader has loaded in this frame
    stored,      \* history: field -> the values ever stored into it
    onCalls,     \* history: the arguments of every call of on
    midi_pitch,  \* tunings.rs: the MIDI pitch handed to well_temperament
    hz,          \* tunings.rs: the frequency it returned, NotTuned before
    in_msgs,     \* the SegQueue<MidiMsg> handed to start_midi_output_thread
    relay_msg,   \* relay thread: the message popped and not yet pushed
    in_pushed,   \* history: every MidiMsg pushed onto in_msgs, in push order
    forwarded,   \* history: every SynthMsg pushed by the relay thread
    pcMain,      \* msg_view_demo: position of main / run_chooser
    mainQuit,    \* msg_view_demo: the local `quit` of main
    picked,      \* history: this run_chooser stored true into the flag
    sessions,    \* history: turns of the loop of main started so far
    outgoing_msgs, \* msg_view_demo: the queue handed to start_output_thread
    choices,     \* history: sounds picked in the menu of run_chooser
    live         \* number of Stream values of run_synth not yet dropped

monoVars  == <<sounds, claimOrder>>
ioVars    == <<midi_msgs, quit, pcIn, warm, stream, opened, enqueued, resets, applied>>
synthVars == <<synth, synth_msgs, running, pcSynth, synthOpened, synthPopped>>
audioVars == <<heard, cell, onPc, onArg, seen, stored, onCalls>>
tuneVars  == <<midi_pitch, hz>>
relayVars == <<in_msgs, relay_msg, in_pushed, forwarded>>
demoVars  == <<pcMain, mainQuit, picked, sessions, outgoing_msgs, choices>>
vars      == <<sounds, claimOrder, pcOut, ioVars, synthVars, audioVars, tuneVars,
               relayVars, demoVars, live>>

----------------------------------------------------------------------------
(* Bounds of the model. *)

\* Slots of a pool when a pool is driven on its own (the const generic N).
NMono == 2
\* Slots of the pool of the wide instance, which has room for three claims.
NWide == 3
\* Slots of each pool of the threaded player (the const generic N).
NPlayer == 1
\* MIDI pitches range over 0..MaxPitch (0..MaxPitchWide in the wide instance).
MaxPitch == 1
MaxPitchWide == 2
\* Messages pushed by the MIDI callback and by the client, in total.
MaxPush == 1
\* Messages pushed onto the queue of the StereoSynth of lib.rs.
MaxSynthPush == 2
\* Messages applied to the two pools when they are driven directly.
MaxApply == 3
\* Calls of SharedMidiState::on beside the reader.
MaxOnCalls == 2

----------------------------------------------------------------------------
(* Values. *)

None == -1
\* Entries of the program table (the table of stereo_demo has two).
TableLen == 2
MAX_MIDI_VALUE == 127
BendCentre == 8192
GateOn == 1
GateOff == -1

Pitches    == 0..MaxPitch
Velocities == {0, 100}
Bends      == {0, 16383}
\* The programs a message may carry: those of the table, and one beyond it.
Programs   == 0..TableLen
Speakers   == {"Left", "Right", "Both"}

\* Speaker::i
SpeakerI(speaker) ==
    CASE speaker = "Left" -> 0 [] speaker = "Right" -> 1 [] OTHER -> 2

\* A MidiMsg: its variant and up to two data values.
MidiMsg(type, a, b) == [type |-> type, a |-> a, b |-> b]
NoteOn(note, velocity)  == MidiMsg("NoteOn", note, velocity)
NoteOff(note, velocity) == MidiMsg("NoteOff", note, velocity)
PitchBend(bend)         == MidiMsg("PitchBend", bend, 0)
ProgramChange(program)  == MidiMsg("ProgramChange", program, 0)
AllNotesOff             == MidiMsg("AllNotesOff", 0, 0)
AllSoundOff             == MidiMsg("AllSoundOff", 0, 0)
SystemReset             == MidiMsg("SystemReset", 0, 0)
\* Any other message (a control change, a timing clock, ...).
OtherMsg                == MidiMsg("Other", 0, 0)

\* The messages whose notes lie in `pitches`.
MidiMsgsOver(pitches) ==
    {NoteOn(p, v) : p \in pitches, v \in Velocities}
        \cup {NoteOff(p, 0) : p \in pitches}
        \cup {PitchBend(b) : b \in Bends}
        \cup {ProgramChange(g) : g \in Programs}
        \cup {AllNotesOff, AllSoundOff, SystemReset, OtherMsg}

\* io.rs SynthMsg
SynthMsg(msg, speaker) == [msg |-> msg, speaker |-> speaker]

----------------------------------------------------------------------------
(* SharedMidiState (lib.rs). *)

\* f64 0.0 Hz, the default of the pitch field.
ZeroHz == [zero |-> TRUE, semis |-> 0]
\* midi_hz: 440 * 2^((pitch - 69) / 12), kept as the semitone offset.
midi_hz(pitch) == [zero |-> FALSE, semis |-> pitch - 69]
\* pitch_bend_factor: 2^(((bend - 8192) / 8192) / 12), kept as bend - 8192.
pitch_bend_factor(bend) == bend - BendCentre

SharedMidiStateDefault ==
    [pitch |-> ZeroHz, velocity |-> <<0, MAX_MIDI_VALUE>>, control |-> 0,
     pitch_bend |-> 0]

\* A variant that stores the velocity as it came, not as a gain.
StateOnRawVelocity(s, pitch, velocity) ==
    [s EXCEPT !.pitch = midi_hz(pitch),
              !.velocity = <<velocity, 1>>,
              !.control = GateOn]

StateOn(s, pitch, velocity) ==
    [s EXCEPT !.pitch = midi_hz(pitch),
              !.velocity = <<velocity, MAX_MIDI_VALUE>>,
              !.control = GateOn]

StateOff(s) == [s EXCEPT !.control = GateOff]

StateBend(s, bend) == [s EXCEPT !.pitch_bend = pitch_bend_factor(bend)]

----------------------------------------------------------------------------
(* MonoPlayer (io.rs). *)

NumSlots(p) == Cardinality(DOMAIN p.recent_pitches)

\* MonoPlayer::new; `pitches` is the index set of pitch2state.
MonoPlayerNew(n, pitches) ==
    [states         |-> [i \in 0..(n - 1) |-> SharedMidiStateDefault],
     next           |-> 0,
     pitch2state    |-> [q \in pitches |-> None],
     recent_pitches |-> [i \in 0..(n - 1) |-> None],
     synth_func     |-> 0,
     master_volume  |-> 1]

\* A variant that marks the slot idle and leaves its gate as it is.
release_marker_only(p, i) == [p EXCEPT !.recent_pitches[i] = None]

release(p, i) ==
    [p EXCEPT !.recent_pitches[i] = None, !.states[i] = StateOff(@)]

RECURSIVE ReleaseFrom(_, _)
ReleaseFrom(p, i) ==
    IF i >= NumSlots(p) THEN p ELSE ReleaseFrom(release(p, i), i + 1)

\* A variant that releases the claimed slots only.
release_all_claimed(p) ==
    [p EXCEPT
        !.recent_pitches = [i \in DOMAIN p.recent_pitches |-> None],
        !.states = [i \in DOMAIN p.states |->
                       IF p.recent_pitches[i] # None THEN StateOff(p.states[i])
                       ELSE p.states[i]]]

release_all(p) == ReleaseFrom(p, 0)

\* A variant that also releases every slot.
all_sounds_off_releasing(p) == [release_all(p) EXCEPT !.master_volume = 0]

all_sounds_off(p) == [p EXCEPT !.master_volume = 0]

\* A variant that swaps the render function without muting.
change_synth_unmuted(p, new_synth) == [p EXCEPT !.synth_func = new_synth]

change_synth(p, new_synth) ==
    [all_sounds_off(p) EXCEPT !.synth_func = new_synth]

\* A variant that bends the claimed slots only.
bend_claimed_only(p, b) ==
    [p EXCEPT !.states = [i \in DOMAIN p.states |->
                             IF p.recent_pitches[i] # None
                             THEN StateBend(p.states[i], b)
                             ELSE p.states[i]]]

bend(p, b) ==
    [p EXCEPT !.states = [i \in DOMAIN p.states |-> StateBend(p.states[i], b)]]

\* A variant that leaves the cursor on the claimed slot.
claim_state_stays(p, state) ==
    [player |-> [p EXCEPT !.next = state], selected |-> state]

\* The result of claim_state: the player with the cursor moved past `state`.
claim_state(p, state) ==
    [player |-> [p EXCEPT !.next = (state + 1) % NumSlots(p)], selected |-> state]

\* ModNumC::iter: the N values from `next` on, wrapping around.
NextIter(p) == [k \in 0..(NumSlots(p) - 1) |-> (p.next + k) % NumSlots(p)]

IdleSteps(p) ==
    {k \in DOMAIN NextIter(p) : p.recent_pitches[NextIter(p)[k]] = None}

FirstStep(S) == CHOOSE k \in S : \A j \in S : k <= j

\* A variant that takes the slot under the cursor, idle or not.
find_next_state_at_cursor(p) ==
    IF p.recent_pitches[p.next] = None
    THEN claim_state(p, p.next)
    ELSE claim_state(
             release([p EXCEPT !.pitch2state[p.recent_pitches[p.next]] = None],
                     p.next),
             p.next)

\* A variant whose steal leaves the pitch map entry of the stolen pitch.
find_next_state_keeps_map(p) ==
    IF IdleSteps(p) # {}
    THEN claim_state(p, NextIter(p)[FirstStep(IdleSteps(p))])
    ELSE claim_state(release(p, p.next), p.next)

find_next_state(p) ==
    IF IdleSteps(p) # {}
    THEN claim_state(p, NextIter(p)[FirstStep(IdleSteps(p))])
    ELSE claim_state(
             release([p EXCEPT !.pitch2state[p.recent_pitches[p.next]] = None],
                     p.next),
             p.next)

\* A variant that grows the pool by one slot when no slot is idle.
on_growing(p, pitch, velocity) ==
    IF IdleSteps(p) # {}
    THEN LET found    == find_next_state([p EXCEPT !.master_volume = 1])
             selected == found.selected
         IN  [found.player EXCEPT
                 !.states[selected] = StateOn(@, pitch, velocity),
                 !.pitch2state[pitch] = selected,
                 !.recent_pitches[selected] = pitch]
    ELSE LET n == NumSlots(p)
         IN  [p EXCEPT
                 !.master_volume = 1,
                 !.states = [i \in 0..n |->
                                IF i < n THEN p.states[i]
                                ELSE StateOn(SharedMidiStateDefault, pitch, velocity)],
                 !.recent_pitches = [i \in 0..n |->
                                        IF i < n THEN p.recent_pitches[i] ELSE pitch],
                 !.pitch2state[pitch] = n]

\* A variant that retriggers the slot a sounding pitch is bound to.
on_retrigger(p, pitch, velocity) ==
    LET i == p.pitch2state[pitch]
    IN  IF i # None /\ p.recent_pitches[i] = pitch
        THEN [p EXCEPT !.master_volume = 1,
                       !.states[i] = StateOn(@, pitch, velocity)]
        ELSE LET found    == find_next_state([p EXCEPT !.master_volume = 1])
                 selected == found.selected
             IN  [found.player EXCEPT
                     !.states[selected] = StateOn(@, pitch, velocity),
                     !.pitch2state[pitch] = selected,
                     !.recent_pitches[selected] = pitch]

\* A variant that keeps the map entry of a pitch that already has one.
on_keeps_first_map(p, pitch, velocity) ==
    LET found    == find_next_state([p EXCEPT !.master_volume = 1])
        selected == found.selected
    IN  [found.player EXCEPT
            !.states[selected] = StateOn(@, pitch, velocity),
            !.pitch2state[pitch] =
                IF @ # None /\ @ # selected /\ found.player.recent_pitches[@] = pitch
                THEN @ ELSE selected,
            !.recent_pitches[selected] = pitch]

\* A variant that records the slot after the selected one in the pitch map.
on_maps_past_slot(p, pitch, velocity) ==
    LET found    == find_next_state([p EXCEPT !.master_volume = 1])
        selected == found.selected
    IN  [found.player EXCEPT
            !.states[selected] = StateOn(@, pitch, velocity),
            !.pitch2state[pitch] = selected + 1,
            !.recent_pitches[selected] = pitch]

on(p, pitch, velocity) ==
    LET found    == find_next_state([p EXCEPT !.master_volume = 1])
        selected == found.selected
    IN  [found.player EXCEPT
            !.states[selected] = StateOn(@, pitch, velocity),
            !.pitch2state[pitch] = selected,
            !.recent_pitches[selected] = pitch]

\* A variant that releases the mapped slot without comparing its recent pitch.
off_unchecked(p, pitch) ==
    LET i == p.pitch2state[pitch]
    IN  IF i # None
        THEN [release(p, i) EXCEPT !.pitch2state[pitch] = None]
        ELSE p

\* A variant that releases the slot under the cursor for an unmapped pitch.
off_unmapped_releases(p, pitch) ==
    LET i == p.pitch2state[pitch]
    IN  IF i # None
        THEN [(IF p.recent_pitches[i] = pitch THEN release(p, i) ELSE p)
                 EXCEPT !.pitch2state[pitch] = None]
        ELSE release(p, p.next)

\* A variant that drops the map entry only together with a release.
off_keeps_stale_map(p, pitch) ==
    LET i == p.pitch2state[pitch]
    IN  IF i # None /\ p.recent_pitches[i] = pitch
        THEN [release(p, i) EXCEPT !.pitch2state[pitch] = None]
        ELSE p

off(p, pitch) ==
    LET i == p.pitch2state[pitch]
    IN  IF i # None
        THEN [(IF p.recent_pitches[i] = pitch THEN release(p, i) ELSE p)
                 EXCEPT !.pitch2state[pitch] = None]
        ELSE p

\* The outcome of MonoPlayer::decode: the player afterwards, the relayed
\* message (None when the message is absorbed), and whether decode panicked
\* (the program table is indexed out of bounds).
Outcome(p, relayed, panic) == [player |-> p, relayed |-> relayed, panic |-> panic]

\* A variant that relays a SystemReset for a message it does not know.
decode_other_resets(p, msg) ==
    CASE msg.type = "NoteOn" ->
            IF msg.b = 0 THEN Outcome(off(p, msg.a), "None", FALSE)
                         ELSE Outcome(on(p, msg.a, msg.b), "None", FALSE)
      [] msg.type = "NoteOff"       -> Outcome(off(p, msg.a), "None", FALSE)
      [] msg.type = "PitchBend"     -> Outcome(bend(p, msg.a), "None", FALSE)
      [] msg.type = "ProgramChange" ->
            IF msg.a < TableLen
            THEN Outcome(change_synth(p, msg.a), "SynthChange", FALSE)
            ELSE Outcome(p, "None", TRUE)
      [] msg.type = "AllNotesOff"   -> Outcome(release_all(p), "None", FALSE)
      [] msg.type = "AllSoundOff"   -> Outcome(all_sounds_off(p), "None", FALSE)
      [] OTHER                      -> Outcome(p, "SystemReset", FALSE)

\* A variant that sends every NoteOn to `on`, whatever its velocity.
decode_any_velocity_on(p, msg) ==
    CASE msg.type = "NoteOn"        -> Outcome(on(p, msg.a, msg.b), "None", FALSE)
      [] msg.type = "NoteOff"       -> Outcome(off(p, msg.a), "None", FALSE)
      [] msg.type = "PitchBend"     -> Outcome(bend(p, msg.a), "None", FALSE)
      [] msg.type = "ProgramChange" ->
            IF msg.a < TableLen
            THEN Outcome(change_synth(p, msg.a), "SynthChange", FALSE)
            ELSE Outcome(p, "None", TRUE)
      [] msg.type = "AllNotesOff"   -> Outcome(release_all(p), "None", FALSE)
      [] msg.type = "AllSoundOff"   -> Outcome(all_sounds_off(p), "None", FALSE)
      [] msg.type = "SystemReset"   -> Outcome(p, "SystemReset", FALSE)
      [] OTHER                      -> Outcome(p, "None", FALSE)

decode(p, msg) ==
    CASE msg.type = "NoteOn" ->
            IF msg.b = 0 THEN Outcome(off(p, msg.a), "None", FALSE)
                         ELSE Outcome(on(p, msg.a, msg.b), "None", FALSE)
      [] msg.type = "NoteOff"       -> Outcome(off(p, msg.a), "None", FALSE)
      [] msg.type = "PitchBend"     -> Outcome(bend(p, msg.a), "None", FALSE)
      [] msg.type = "ProgramChange" ->
            IF msg.a < TableLen
            THEN Outcome(change_synth(p, msg.a), "SynthChange", FALSE)
            ELSE Outcome(p, "None", TRUE)
      [] msg.type = "AllNotesOff"   -> Outcome(release_all(p), "None", FALSE)
      [] msg.type = "AllSoundOff"   -> Outcome(all_sounds_off(p), "None", FALSE)
      [] msg.type = "SystemReset"   -> Outcome(p, "SystemReset", FALSE)
      [] OTHER                      -> Outcome(p, "None", FALSE)

----------------------------------------------------------------------------
(* History of pool 0: the order in which its claimed slots were claimed. *)

RECURSIVE Without(_, _)
Without(seq, S) ==
    IF seq = <<>> THEN <<>>
    ELSE IF Head(seq) \in S THEN Without(Tail(seq), S)
         ELSE <<Head(seq)>> \o Without(Tail(seq), S)

Claimed(p) == {i \in DOMAIN p.recent_pitches : p.recent_pitches[i] # None}

\* The claim order after `msg` is decoded by player p (q is the player after).
ClaimOrderAfter(order, p, msg, q) ==
    IF msg.type = "NoteOn" /\ msg.b # 0
    THEN LET s == find_next_state(p).selected
         IN  Append(Without(order, {s} \cup (DOMAIN p.recent_pitches \ Claimed(q))), s)
    ELSE Without(order, DOMAIN p.recent_pitches \ Claimed(q))

----------------------------------------------------------------------------
(* A pool driven on its own: MonoPlayer::decode applied to pool 0. *)

InitIo ==
    /\ midi_msgs = <<>>
    /\ quit = FALSE
    /\ pcIn = "connect"
    /\ warm = 0
    /\ stream = FALSE
    /\ opened = 0
    /\ enqueued = <<>>
    /\ resets = 0
    /\ applied = <<>>

\* No frequency computed yet.
NotTuned == [whole |-> -1, frac |-> 0]

\* The three fields that on() stores, in the order of its stores.
OnFields == <<"pitch", "velocity", "control">>

InitAudio ==
    /\ heard = <<>>
    /\ cell = SharedMidiStateDefault
    /\ onPc = 0
    /\ onArg = <<0, 0>>
    /\ seen = [loaded |-> {}, value |-> SharedMidiStateDefault]
    /\ stored = [f \in {OnFields[k] : k \in 1..3} |-> {SharedMidiStateDefault[f]}]
    /\ onCalls = {}
    /\ midi_pitch = 0
    /\ hz = NotTuned

\* No relay thread and no demo program runs, and no stream exists.
InitRest ==
    /\ in_msgs = <<>>
    /\ relay_msg = <<>>
    /\ in_pushed = <<>>
    /\ forwarded = <<>>
    /\ pcMain = "none"
    /\ mainQuit = FALSE
    /\ picked = FALSE
    /\ sessions = 0
    /\ outgoing_msgs = <<>>
    /\ choices = 0
    /\ live = 0

InitSynth ==
    /\ synth = <<>>
    /\ synth_msgs = <<>>
    /\ running = TRUE
    /\ pcSynth = "get_stream"
    /\ synthOpened = 0
    /\ synthPopped = <<>>

PitchesOf(p) == DOMAIN p.pitch2state

InitMono ==
    /\ sounds = [i \in 0..1 |-> MonoPlayerNew(NMono, Pitches)]
    /\ claimOrder = <<>>
    /\ pcOut = "drain"
    /\ InitIo
    /\ InitSynth
    /\ InitAudio
    /\ InitRest

InitWide ==
    /\ sounds = [i \in 0..1 |-> MonoPlayerNew(NWide, 0..MaxPitchWide)]
    /\ claimOrder = <<>>
    /\ pcOut = "drain"
    /\ InitIo
    /\ InitSynth
    /\ InitAudio
    /\ InitRest

MonoDecode(msg) ==
    /\ pcOut = "drain"
    /\ LET out == decode(sounds[0], msg)
       IN  /\ sounds' = [sounds EXCEPT ![0] = out.player]
           /\ claimOrder' = ClaimOrderAfter(claimOrder, sounds[0], msg, out.player)
           /\ pcOut' = IF out.panic THEN "panicked" ELSE pcOut
    /\ UNCHANGED <<ioVars, synthVars, audioVars, tuneVars,
                   relayVars, demoVars, live>>

NextMono == \E msg \in MidiMsgsOver(PitchesOf(sounds[0])) : MonoDecode(msg)

SpecMono == InitMono /\ [][NextMono]_vars

SpecWide == InitWide /\ [][NextMono]_vars

\* The monophonic pool: MonoPlayer<1>.
InitSolo ==
    /\ sounds = [i \in 0..1 |-> MonoPlayerNew(1, Pitches)]
    /\ claimOrder = <<>>
    /\ pcOut = "drain"
    /\ InitIo
    /\ InitSynth
    /\ InitAudio
    /\ InitRest

SpecSolo == InitSolo /\ [][NextMono]_vars

----------------------------------------------------------------------------
(* StereoPlayer (io.rs): decode, and the threads around the queue. *)

\* A variant in which Both addresses pool 0 only.
StereoDecodeLeftOnly(snds, speaker, msg) ==
    LET i   == IF speaker = "Right" THEN 1 ELSE 0
        out == decode(snds[i], msg)
    IN  [sounds  |-> [snds EXCEPT ![i] = out.player],
         relayed |-> out.relayed,
         panic   |-> out.panic]

\* A variant that addresses both pools whatever the speaker.
StereoDecodeAll(snds, speaker, msg) ==
    LET left  == decode(snds[0], msg)
        right == decode(snds[1], msg)
    IN  IF left.panic
        THEN [sounds |-> snds, relayed |-> "None", panic |-> TRUE]
        ELSE [sounds  |-> [snds EXCEPT ![0] = left.player, ![1] = right.player],
              relayed |-> IF left.relayed # "None" THEN left.relayed
                          ELSE right.relayed,
              panic   |-> right.panic]

\* StereoPlayer::decode: Left and Right address one pool, Both addresses
\* pool 0 and then pool 1; the result is the first relayed message.
StereoDecode(snds, speaker, msg) ==
    IF speaker # "Both"
    THEN LET out == decode(snds[SpeakerI(speaker)], msg)
         IN  [sounds  |-> [snds EXCEPT ![SpeakerI(speaker)] = out.player],
              relayed |-> out.relayed,
              panic   |-> out.panic]
    ELSE LET left  == decode(snds[0], msg)
             right == decode(snds[1], msg)
         IN  IF left.panic
             THEN [sounds |-> snds, relayed |-> "None", panic |-> TRUE]
             ELSE [sounds  |-> [snds EXCEPT ![0] = left.player, ![1] = right.player],
                   relayed |-> IF left.relayed # "None" THEN left.relayed
                               ELSE right.relayed,
                   panic   |-> right.panic]

(* The two pools driven directly: StereoPlayer::decode applied to a run of *)
(* tagged messages, recorded in `applied`.                                 *)

\* The messages of a run: one for each arm of decode that changes a pool,
\* and a ProgramChange beyond the table, under every speaker tag.
StereoMsgs ==
    {SynthMsg(m, sp) :
        m \in {NoteOn(0, 100), NoteOn(1, 100), NoteOff(0, 0), PitchBend(16383),
               ProgramChange(1), ProgramChange(TableLen), AllNotesOff,
               AllSoundOff},
        sp \in Speakers}

InitStereo ==
    /\ sounds = [i \in 0..1 |-> MonoPlayerNew(NMono, Pitches)]
    /\ claimOrder = <<>>
    /\ pcOut = "drain"
    /\ InitIo
    /\ InitSynth
    /\ InitAudio
    /\ InitRest

StereoApply(m) ==
    /\ pcOut = "drain"
    /\ Len(applied) < MaxApply
    /\ LET out == StereoDecode(sounds, m.speaker, m.msg)
       IN  /\ sounds' = out.sounds
           /\ pcOut' = IF out.panic THEN "panicked" ELSE pcOut
    /\ applied' = Append(applied, m)
    /\ UNCHANGED <<claimOrder, midi_msgs, quit, pcIn, warm, stream, opened,
                   enqueued, resets, synthVars, audioVars, tuneVars,
                   relayVars, demoVars, live>>

NextStereo == \E m \in StereoMsgs : StereoApply(m)

SpecStereo == InitStereo /\ [][NextStereo]_vars

\* A variant of the pop that leaves the message in the queue.
PoppedNothing(queue) == queue

\* The queue after midi_msgs.pop() returned its head.
Popped(queue) == Tail(queue)

\* SegQueue::push
Push(m) ==
    /\ midi_msgs' = Append(midi_msgs, m)
    /\ enqueued' = Append(enqueued, m)

\* Messages passed on by input_callback with the encoder of start_input_thread:
\* one message for each arm of decode, each tagged Both.
CallbackMsgs ==
    {SynthMsg(m, "Both") :
        m \in {NoteOn(0, 100), NoteOff(0, 0), PitchBend(16383), AllNotesOff,
               AllSoundOff, SystemReset, OtherMsg}
                \cup {ProgramChange(g) : g \in Programs}}

\* Messages a client builds with the constructors of SynthMsg.
ClientMsgs ==
    {SynthMsg(m, sp) :
        m \in {ProgramChange(1), AllNotesOff, AllSoundOff, SystemReset},
        sp \in Speakers}

Pushes == Len(enqueued) - warm - resets

InitPlayer ==
    /\ sounds = [i \in 0..1 |-> MonoPlayerNew(NPlayer, Pitches)]
    /\ claimOrder = <<>>
    /\ pcOut = "run_output"
    /\ InitIo
    /\ InitSynth
    /\ InitAudio
    /\ InitRest

(* The input thread: start_generic_input_thread. *)

ConnectOk ==
    /\ pcIn = "connect"
    /\ pcIn' = "poll"
    /\ UNCHANGED <<sounds, claimOrder, pcOut, midi_msgs, quit, warm, stream,
                   opened, enqueued, resets, applied, synthVars, audioVars, tuneVars,
                   relayVars, demoVars, live>>

\* connect(...).unwrap() panics when the port cannot be opened.
ConnectErr ==
    /\ pcIn = "connect"
    /\ pcIn' = "panicked"
    /\ UNCHANGED <<sounds, claimOrder, pcOut, midi_msgs, quit, warm, stream,
                   opened, enqueued, resets, applied, synthVars, audioVars, tuneVars,
                   relayVars, demoVars, live>>

\* A variant in which the polling loop is left whatever the flag holds.
PollQuitUnguarded ==
    /\ pcIn = "poll"
    /\ pcIn' = "push"
    /\ UNCHANGED <<sounds, claimOrder, pcOut, midi_msgs, quit, warm, stream,
                   opened, enqueued, resets, applied, synthVars, audioVars, tuneVars,
                   relayVars, demoVars, live>>

\* while !quit.load() {}: the loop is left once a load returns true.
PollQuit ==
    /\ pcIn = "poll"
    /\ quit
    /\ pcIn' = "push"
    /\ UNCHANGED <<sounds, claimOrder, pcOut, midi_msgs, quit, warm, stream,
                   opened, enqueued, resets, applied, synthVars, audioVars, tuneVars,
                   relayVars, demoVars, live>>

\* A variant in which the thread clears the flag without pushing the reset.
PushResetSkipped ==
    /\ pcIn = "push"
    /\ pcIn' = "store"
    /\ UNCHANGED <<sounds, claimOrder, pcOut, midi_msgs, quit, warm, stream,
                   opened, enqueued, resets, applied, synthVars, audioVars, tuneVars,
                   relayVars, demoVars, live>>

PushReset ==
    /\ pcIn = "push"
    /\ Push(SynthMsg(SystemReset, "Both"))
    /\ resets' = resets + 1
    /\ pcIn' = "store"
    /\ UNCHANGED <<sounds, claimOrder, pcOut, quit, warm, stream, opened,
                   applied, synthVars, audioVars, tuneVars,
                   relayVars, demoVars, live>>

StoreQuit ==
    /\ pcIn = "store"
    /\ quit' = FALSE
    /\ pcIn' = "exited"
    /\ UNCHANGED <<sounds, claimOrder, pcOut, midi_msgs, warm, stream, opened,
                   enqueued, resets, applied, synthVars, audioVars, tuneVars,
                   relayVars, demoVars, live>>

InputThread == ConnectOk \/ ConnectErr \/ PollQuit \/ PushReset \/ StoreQuit

\* input_callback, called by the connection while the thread holds it; the
\* message it passes on is one of `msgs`.
CallbackOf(msgs) ==
    /\ pcIn \in {"poll", "push", "store"}
    /\ Pushes < MaxPush
    /\ \E m \in msgs : Push(m)
    /\ UNCHANGED <<sounds, claimOrder, pcOut, quit, pcIn, warm, stream, opened,
                   resets, applied, synthVars, audioVars, tuneVars,
                   relayVars, demoVars, live>>

Callback == CallbackOf(CallbackMsgs)

(* The client: it pushes messages of its own and stores true into quit. *)

ClientPushOf(msgs) ==
    /\ Pushes < MaxPush
    /\ \E m \in msgs : Push(m)
    /\ UNCHANGED <<sounds, claimOrder, pcOut, quit, pcIn, warm, stream, opened,
                   resets, applied, synthVars, audioVars, tuneVars,
                   relayVars, demoVars, live>>

ClientPush == ClientPushOf(ClientMsgs)

ClientQuit ==
    /\ ~quit
    /\ quit' = TRUE
    /\ UNCHANGED <<sounds, claimOrder, pcOut, midi_msgs, pcIn, warm, stream,
                   opened, enqueued, resets, applied, synthVars, audioVars, tuneVars,
                   relayVars, demoVars, live>>

(* The output thread: run_output, run_synth, handle_messages. *)

RunOutputOk ==
    /\ pcOut = "run_output"
    /\ pcOut' = "warm_up"
    /\ UNCHANGED <<sounds, claimOrder, ioVars, synthVars, audioVars, tuneVars,
                   relayVars, demoVars, live>>

\* No default output device, or no default output configuration.
RunOutputErr ==
    /\ pcOut = "run_output"
    /\ pcOut' = "failed"
    /\ UNCHANGED <<sounds, claimOrder, ioVars, synthVars, audioVars, tuneVars,
                   relayVars, demoVars, live>>

\* The default configuration has a sample format other than F32, I16 and
\* U16: run_output panics.
RunOutputPanic ==
    /\ pcOut = "run_output"
    /\ pcOut' = "unsupported"
    /\ UNCHANGED <<sounds, claimOrder, ioVars, synthVars, audioVars, tuneVars,
                   relayVars, demoVars, live>>

\* A variant whose NoteOn carries a velocity above 0.
WarmUpMsgLoud(k) ==
    SynthMsg(IF k % 2 = 0 THEN NoteOn(0, 100) ELSE NoteOff(0, 0), "Both")

\* The k-th message pushed by warm_up (k from 0).
WarmUpMsg(k) ==
    SynthMsg(IF k % 2 = 0 THEN NoteOn(0, 0) ELSE NoteOff(0, 0), "Both")

\* A variant that pushes one message for each slot instead of a pair.
WarmUpSingles ==
    /\ pcOut = "warm_up"
    /\ IF warm < NumSlots(sounds[0])
       THEN /\ Push(WarmUpMsg(warm))
            /\ warm' = warm + 1
            /\ pcOut' = pcOut
       ELSE /\ pcOut' = "get_stream"
            /\ UNCHANGED <<midi_msgs, enqueued, warm>>
    /\ UNCHANGED <<sounds, claimOrder, quit, pcIn, stream, opened, resets,
                   applied, synthVars, audioVars, tuneVars,
                   relayVars, demoVars, live>>

WarmUp ==
    /\ pcOut = "warm_up"
    /\ IF warm < 2 * NumSlots(sounds[0])
       THEN /\ Push(WarmUpMsg(warm))
            /\ warm' = warm + 1
            /\ pcOut' = pcOut
       ELSE /\ pcOut' = "get_stream"
            /\ UNCHANGED <<midi_msgs, enqueued, warm>>
    /\ UNCHANGED <<sounds, claimOrder, quit, pcIn, stream, opened, resets,
                   applied, synthVars, audioVars, tuneVars,
                   relayVars, demoVars, live>>

\* get_stream and stream.play() succeed.
GetStreamOk ==
    /\ pcOut = "get_stream"
    /\ stream' = TRUE
    /\ opened' = opened + 1
    /\ live' = live + 1
    /\ pcOut' = "drain"
    /\ UNCHANGED <<sounds, claimOrder, midi_msgs, quit, pcIn, warm, enqueued,
                   resets, applied, synthVars, audioVars, tuneVars, relayVars,
                   demoVars>>

\* A variant in which a failed build is ignored and the drain loop entered.
GetStreamErrIgnored ==
    /\ pcOut = "get_stream"
    /\ pcOut' = "drain"
    /\ UNCHANGED <<sounds, claimOrder, ioVars, synthVars, audioVars, tuneVars,
                   relayVars, demoVars, live>>

\* get_stream or stream.play() fails: run_synth returns the error.
GetStreamErr ==
    /\ pcOut = "get_stream"
    /\ pcOut' = "failed"
    /\ UNCHANGED <<sounds, claimOrder, ioVars, synthVars, audioVars, tuneVars,
                   relayVars, demoVars, live>>

\* A variant in which a relayed SystemReset does not end the loop.
AfterDecodeNoReset(out) ==
    CASE out.panic                   -> "panicked"
      [] out.relayed = "SynthChange" -> "get_stream"
      [] OTHER                       -> "drain"

\* A variant in which a relayed SynthChange does not leave handle_messages.
AfterDecodeNoRebuild(out) ==
    CASE out.panic                   -> "panicked"
      [] out.relayed = "SystemReset" -> "done"
      [] OTHER                       -> "drain"

\* A variant in which the stream of a finished turn is kept alive.
DropStreamKept(n) == n

\* The local `stream` goes out of scope when the body of the loop of
\* run_synth is left (at the end of a turn, on return, or on a panic).
DropStream(n) == n - 1

\* Where run_synth goes after handle_messages popped and decoded a message.
AfterDecode(out) ==
    CASE out.panic                   -> "panicked"
      [] out.relayed = "SystemReset" -> "done"
      [] out.relayed = "SynthChange" -> "get_stream"
      [] OTHER                       -> "drain"

\* One turn of the loop of handle_messages that pops a message.
HandleMessage ==
    /\ pcOut = "drain"
    /\ midi_msgs # <<>>
    /\ LET msg == Head(midi_msgs)
           out == StereoDecode(sounds, msg.speaker, msg.msg)
       IN  /\ midi_msgs' = Popped(midi_msgs)
           /\ applied' = Append(applied, msg)
           /\ sounds' = out.sounds
           /\ pcOut' = AfterDecode(out)
           /\ stream' = (AfterDecode(out) = "drain")
           /\ live' = IF AfterDecode(out) = "drain" THEN live
                      ELSE DropStream(live)
    /\ UNCHANGED <<claimOrder, quit, pcIn, warm, opened, enqueued, resets,
                   synthVars, audioVars, tuneVars, relayVars, demoVars>>

OutputThread ==
    RunOutputOk \/ RunOutputErr \/ RunOutputPanic \/ WarmUp \/ GetStreamOk
        \/ GetStreamErr \/ HandleMessage

Next == InputThread \/ Callback \/ ClientPush \/ ClientQuit \/ OutputThread

Spec == InitPlayer /\ [][Next]_vars

\* For termination the producers push one message for each way a decoded
\* message can end: absorbed, a stream rebuild, a panic, the end of the loop.
FairCallbackMsgs ==
    {SynthMsg(m, "Both") :
        m \in {NoteOn(0, 100), ProgramChange(1), ProgramChange(TableLen),
               SystemReset}}

FairClientMsgs ==
    {SynthMsg(ProgramChange(1), "Left"), SynthMsg(SystemReset, "Right")}

FairNext ==
    \/ InputThread
    \/ CallbackOf(FairCallbackMsgs)
    \/ ClientPushOf(FairClientMsgs)
    \/ ClientQuit
    \/ OutputThread

\* Each thread keeps being scheduled while it has a step to take.
FairSpec ==
    InitPlayer /\ [][FairNext]_vars /\ WF_vars(InputThread) /\ WF_vars(OutputThread)

----------------------------------------------------------------------------
(* The output callback of the stream built by get_stream. *)

\* What the sound graph reads when it renders: the four shared values of
\* every slot and the master gain of each pool.
Audible(snds) ==
    [i \in DOMAIN snds |->
        [states |-> snds[i].states, master_volume |-> snds[i].master_volume]]

\* A variant of the callback that also pops the message queue.
AudioCallbackPopping ==
    /\ stream
    /\ heard' = Audible(sounds)
    /\ midi_msgs' = IF midi_msgs = <<>> THEN midi_msgs ELSE Tail(midi_msgs)
    /\ UNCHANGED <<sounds, claimOrder, pcOut, quit, pcIn, warm, stream, opened,
                   enqueued, resets, applied, synthVars, tuneVars,
                   relayVars, demoVars, live, cell, onPc,
                   onArg, seen, stored, onCalls>>

\* One run of the data callback: write_data fills the buffer from
\* sound.get_stereo(), which reads the shared values.
AudioCallback ==
    /\ stream
    /\ heard' = Audible(sounds)
    /\ UNCHANGED <<sounds, claimOrder, pcOut, ioVars, synthVars, tuneVars,
                   relayVars, demoVars, live, cell, onPc,
                   onArg, seen, stored, onCalls>>

NextAudio == FairNext \/ AudioCallback

SpecAudio == InitPlayer /\ [][NextAudio]_vars

----------------------------------------------------------------------------
(* SharedMidiState::on store by store, beside a reader of the same state. *)

\* The velocities on() is called with.
OnVelocities == {64, 100}

\* A variant of on() that stores the gate first and the pitch last.
OnStoreGateFirst(s, k, pitch, velocity) ==
    CASE k = 1 -> [s EXCEPT !.control = GateOn]
      [] k = 2 -> [s EXCEPT !.velocity = <<velocity, MAX_MIDI_VALUE>>]
      [] OTHER -> [s EXCEPT !.pitch = midi_hz(pitch)]

\* The state after the k-th set_value of on(pitch, velocity).
OnStore(s, k, pitch, velocity) ==
    CASE k = 1 -> [s EXCEPT !.pitch = midi_hz(pitch)]
      [] k = 2 -> [s EXCEPT !.velocity = <<velocity, MAX_MIDI_VALUE>>]
      [] OTHER -> [s EXCEPT !.control = GateOn]

InitShared ==
    /\ sounds = [i \in 0..1 |-> MonoPlayerNew(NPlayer, Pitches)]
    /\ claimOrder = <<>>
    /\ pcOut = "drain"
    /\ InitIo
    /\ InitSynth
    /\ InitAudio
    /\ InitRest

\* on(pitch, velocity) is called.
OnCall ==
    /\ onPc = 0
    /\ Cardinality(onCalls) < MaxOnCalls
    /\ \E pitch \in Pitches, velocity \in OnVelocities :
           /\ <<pitch, velocity>> \notin onCalls
           /\ onArg' = <<pitch, velocity>>
           /\ onCalls' = onCalls \cup {<<pitch, velocity>>}
    /\ onPc' = 1
    /\ UNCHANGED <<sounds, claimOrder, pcOut, ioVars, synthVars, tuneVars,
                   relayVars, demoVars, live, heard, cell,
                   seen, stored>>

\* The next set_value of the running call.
OnStep ==
    /\ onPc \in 1..3
    /\ cell' = OnStore(cell, onPc, onArg[1], onArg[2])
    /\ stored' = [stored EXCEPT ![OnFields[onPc]] = @ \cup {cell'[OnFields[onPc]]}]
    /\ onPc' = IF onPc = 3 THEN 0 ELSE onPc + 1
    /\ UNCHANGED <<sounds, claimOrder, pcOut, ioVars, synthVars, tuneVars,
                   relayVars, demoVars, live, heard, onArg,
                   seen, onCalls>>

\* The reader (a var() node of the sound graph) loads one field; the three
\* loads of a frame come in any order, and a full frame starts the next.
ReaderLoad ==
    LET base == IF seen.loaded = DOMAIN stored THEN {} ELSE seen.loaded
    IN  /\ \E f \in DOMAIN stored \ base :
               seen' = [loaded |-> base \cup {f},
                        value  |-> [seen.value EXCEPT ![f] = cell[f]]]
        /\ UNCHANGED <<sounds, claimOrder, pcOut, ioVars, synthVars, tuneVars,
                   relayVars, demoVars, live, heard, cell,
                       onPc, onArg, stored, onCalls>>

NextShared == OnCall \/ OnStep \/ ReaderLoad

SpecShared == InitShared /\ [][NextShared]_vars

----------------------------------------------------------------------------
(* tunings.rs: well_temperament. Frequencies are kept exactly to 1e-7 Hz as  *)
(* a whole number of Hz and a fraction counted in units of 1e-7 Hz.          *)

\* The number of 1e-7 units in one.
TuneUnit == 10000000
\* WELL_C_MINUS_1 = 8.20354352009375, in units of 1e-7.
WELL_C_MINUS_1 == 82035435
\* The ratios of the match on midi_pitch % 12, in units of 1e-7.
WellRatio ==
    <<10000000, 10582673, 11199298, 11878649,
      12542428, 13363480, 14110231, 14966160,
      15856094, 16761049, 17797864, 18813642>>

\* a * b for two factors in units of 1e-7, again in units of 1e-7, computed
\* on halves of four digits (the partial products are truncated).
FixMul(a, b) ==
    LET ah == a \div 10000
        al == a % 10000
        bh == b \div 10000
        bl == b % 10000
    IN  ah * bh * 10 + (ah * bl + al * bh) \div 1000 + (al * bl) \div TuneUnit

Double(x) ==
    [whole |-> 2 * x.whole + (2 * x.frac) \div TuneUnit,
     frac  |-> (2 * x.frac) % TuneUnit]

\* x * 2^k, which is exact.
RECURSIVE TimesPow2(_, _)
TimesPow2(x, k) == IF k = 0 THEN x ELSE TimesPow2(Double(x), k - 1)

\* A variant that leaves the octave out.
well_temperament_one_octave(p) ==
    LET base == FixMul(WELL_C_MINUS_1, WellRatio[(p % 12) + 1])
    IN  [whole |-> base \div TuneUnit, frac |-> base % TuneUnit]

\* well_temperament: 2^octave * WELL_C_MINUS_1 * ratio, the factor 2^octave
\* applied last (a power of two scales a product exactly).
well_temperament(p) ==
    LET octave == p \div 12
        base   == FixMul(WELL_C_MINUS_1, WellRatio[(p % 12) + 1])
    IN  TimesPow2([whole |-> base \div TuneUnit, frac |-> base % TuneUnit], octave)

\* The table of test_well, rounded to 1e-7 Hz.
TestPitches == 53..64
TestHz(p) ==
    CASE p = 53 -> [whole |-> 175, frac |-> 4046339]
      [] p = 54 -> [whole |-> 185, frac |-> 2062382]
      [] p = 55 -> [whole |-> 196, frac |-> 4408802]
      [] p = 56 -> [whole |-> 208, frac |-> 1218628]
      [] p = 57 -> [whole |-> 220, frac |-> 0]
      [] p = 58 -> [whole |-> 233, frac |-> 6088925]
      [] p = 59 -> [whole |-> 246, frac |-> 9416509]
      [] p = 60 -> [whole |-> 262, frac |-> 5133926]
      [] p = 61 -> [whole |-> 277, frac |-> 8093574]
      [] p = 62 -> [whole |-> 293, frac |-> 9961565]
      [] p = 63 -> [whole |-> 311, frac |-> 8304599]
      [] p = 64 -> [whole |-> 329, frac |-> 2555345]

\* The MIDI pitches.
TunePitches == 0..MAX_MIDI_VALUE

InitTuning ==
    /\ sounds = [i \in 0..1 |-> MonoPlayerNew(NPlayer, Pitches)]
    /\ claimOrder = <<>>
    /\ pcOut = "drain"
    /\ InitIo
    /\ InitSynth
    /\ InitAudio
    /\ InitRest

\* The caller picks the next pitch to convert.
PickPitch ==
    /\ hz # NotTuned
    /\ \E p \in TunePitches : midi_pitch' = p
    /\ hz' = NotTuned
    /\ UNCHANGED <<sounds, claimOrder, pcOut, ioVars, synthVars, audioVars,
                   relayVars, demoVars, live>>

WellTemper ==
    /\ hz = NotTuned
    /\ hz' = well_temperament(midi_pitch)
    /\ UNCHANGED <<sounds, claimOrder, pcOut, ioVars, synthVars, audioVars,
                   midi_pitch, relayVars, demoVars, live>>

NextTuning == PickPitch \/ WellTemper

SpecTuning == InitTuning /\ [][NextTuning]_vars

----------------------------------------------------------------------------
(* lib.rs: MonoSynth and StereoSynth. *)

MonoSynthNew(n, pitches, synth_func) ==
    [states         |-> [i \in 0..(n - 1) |-> SharedMidiStateDefault],
     next           |-> 0,
     pitch2state    |-> [q \in pitches |-> None],
     recent_pitches |-> [i \in 0..(n - 1) |-> None],
     synth_func     |-> synth_func]

\* MonoSynth::on: the slot under the cursor is taken, whatever its state.
SynthOn(p, pitch, velocity) ==
    [p EXCEPT !.states[p.next] = StateOn(@, pitch, velocity),
              !.pitch2state[pitch] = p.next,
              !.recent_pitches[p.next] = pitch,
              !.next = (p.next + 1) % NumSlots(p)]

\* MonoSynth::decode
SynthDecode(p, msg) ==
    CASE msg.type = "NoteOn"    -> SynthOn(p, msg.a, msg.b)
      [] msg.type = "NoteOff"   -> off(p, msg.a)
      [] msg.type = "PitchBend" -> bend(p, msg.a)
      [] OTHER                  -> p

\* MonoSynth::all_off
all_off(p) == release_all(p)

\* lib.rs SynthMsg: Midi(msg, speaker), SetSynth(synth, speaker),
\* Off(speaker) and Quit.
LibMsg(kind, msg, func, speaker) ==
    [kind |-> kind, msg |-> msg, func |-> func, speaker |-> speaker]

LibMidiMsgs ==
    {NoteOn(p, v) : p \in Pitches, v \in Velocities}
        \cup {NoteOff(p, 0) : p \in Pitches}
        \cup {PitchBend(b) : b \in Bends}
        \cup {OtherMsg}

LibMsgs ==
    {LibMsg("Midi", m, 0, sp) : m \in LibMidiMsgs, sp \in Speakers}
        \cup {LibMsg("SetSynth", OtherMsg, f, sp) : f \in 0..1, sp \in Speakers}
        \cup {LibMsg("Off", OtherMsg, 0, sp) : sp \in Speakers}
        \cup {LibMsg("Quit", OtherMsg, 0, "Both")}

\* What act applies to one MonoSynth for message m.
LibAction(p, m) ==
    CASE m.kind = "Midi"     -> SynthDecode(p, m.msg)
      [] m.kind = "SetSynth" -> [p EXCEPT !.synth_func = m.func]
      [] m.kind = "Off"      -> all_off(p)
      [] OTHER               -> p

\* StereoSynth::act
act(snds, speaker, m) ==
    [i \in DOMAIN snds |->
        IF speaker = "Both" \/ SpeakerI(speaker) = i
        THEN LibAction(snds[i], m) ELSE snds[i]]

InitLib ==
    /\ synth = [i \in 0..1 |-> MonoSynthNew(NPlayer, Pitches, 0)]
    /\ synth_msgs = <<>>
    /\ running = TRUE
    /\ pcSynth = "get_stream"
    /\ synthOpened = 0
    /\ synthPopped = <<>>
    /\ sounds = [i \in 0..1 |-> MonoPlayerNew(NPlayer, Pitches)]
    /\ claimOrder = <<>>
    /\ pcOut = "run_output"
    /\ InitIo
    /\ InitAudio
    /\ InitRest

\* A producer (the MIDI callback of start_input_thread, or the client).
LibPush ==
    /\ Len(synth_msgs) + Len(synthPopped) < MaxSynthPush
    /\ \E m \in LibMsgs : synth_msgs' = Append(synth_msgs, m)
    /\ UNCHANGED <<sounds, claimOrder, pcOut, ioVars, audioVars, tuneVars,
                   relayVars, demoVars, live, synth, running, pcSynth,
                   synthOpened, synthPopped>>

\* run_synth: get_stream and stream.play() succeed, handle_messages starts.
LibGetStreamOk ==
    /\ pcSynth = "get_stream"
    /\ synthOpened' = synthOpened + 1
    /\ pcSynth' = "handle_messages"
    /\ UNCHANGED <<sounds, claimOrder, pcOut, ioVars, audioVars, tuneVars,
                   relayVars, demoVars, live, synth, synth_msgs, running,
                   synthPopped>>

LibGetStreamErr ==
    /\ pcSynth = "get_stream"
    /\ pcSynth' = "failed"
    /\ UNCHANGED <<sounds, claimOrder, pcOut, ioVars, audioVars, tuneVars,
                   relayVars, demoVars, live, synth, synth_msgs, running,
                   synthOpened, synthPopped>>

\* One turn of the loop of handle_messages that pops a message. The loop is
\* left only when synth_changed is set, which SetSynth alone does; run_synth
\* then tests `running`.
LibHandleMessage ==
    /\ pcSynth = "handle_messages"
    /\ synth_msgs # <<>>
    /\ LET m == Head(synth_msgs)
           nowRunning == IF m.kind = "Quit" THEN FALSE ELSE running
       IN  /\ synth_msgs' = Tail(synth_msgs)
           /\ synthPopped' = Append(synthPopped, m)
           /\ synth' = act(synth, m.speaker, m)
           /\ running' = nowRunning
           /\ pcSynth' = IF m.kind = "SetSynth"
                         THEN (IF nowRunning THEN "get_stream" ELSE "done")
                         ELSE "handle_messages"
    /\ UNCHANGED <<sounds, claimOrder, pcOut, ioVars, audioVars, tuneVars,
                   relayVars, demoVars, live, synthOpened>>

NextLib == LibPush \/ LibGetStreamOk \/ LibGetStreamErr \/ LibHandleMessage

SpecLib == InitLib /\ [][NextLib]_vars

----------------------------------------------------------------------------
(* Properties of the slot allocation of MonoPlayer. *)

AllClaimed(p) == Claimed(p) = DOMAIN p.recent_pitches

\* How many cursor steps slot i lies ahead of the cursor of p.
Ahead(p, i) == (i - p.next + NumSlots(p)) % NumSlots(p)

NoteOnsOf(p) == {NoteOn(pitch, v) : pitch \in PitchesOf(p), v \in Velocities \ {0}}

\* C1: whenever every slot of the pool is claimed, the slot the next NoteOn
\* (velocity > 0) takes over is the one whose claim is the oldest.
C1_StealTakesOldest ==
    AllClaimed(sounds[0]) =>
        find_next_state(sounds[0]).selected = Head(claimOrder)

\* C2: whenever some slot is idle, a NoteOn (velocity > 0) claims the idle
\* slot nearest ahead of the cursor, moves the cursor just past it, and
\* leaves every claimed slot claimed, with its pitch, gate and map entry.
C2_IdleFirst ==
    LET p == sounds[0]
    IN  ~AllClaimed(p) =>
            \A msg \in NoteOnsOf(p) :
                LET q == decode(p, msg).player
                IN  /\ \E s \in DOMAIN p.recent_pitches \ Claimed(p) :
                           /\ \A i \in DOMAIN p.recent_pitches \ Claimed(p) :
                                  Ahead(p, s) <= Ahead(p, i)
                           /\ q.recent_pitches[s] = msg.a
                           /\ q.states[s].control = GateOn
                           /\ q.next = (s + 1) % NumSlots(p)
                    /\ \A i \in Claimed(p) :
                           /\ q.recent_pitches[i] = p.recent_pitches[i]
                           /\ q.states[i] = p.states[i]
                    /\ \A pitch \in PitchesOf(p) \ {msg.a} :
                           q.pitch2state[pitch] = p.pitch2state[pitch]

\* A NoteOn arrives while the cursor's slot is claimed and another is idle.
C2_Witness ==
    LET p == sounds[0]
    IN  /\ ~AllClaimed(p)
        /\ p.recent_pitches[p.next] # None
        /\ decode(p, NoteOn(0, 100)).player.next # (p.next + 1) % NumSlots(p)
        /\ Claimed(decode(p, NoteOn(0, 100)).player) = Claimed(p) \cup
               {(decode(p, NoteOn(0, 100)).player.next + NumSlots(p) - 1) % NumSlots(p)}

\* C3: a NoteOff for pitch A (sent as NoteOff, or as NoteOn with velocity 0)
\* leaves every slot bound to another pitch B untouched: its recent pitch
\* stays B and its gate stays +1.
C3_OffSparesOtherPitch ==
    LET p == sounds[0]
    IN  \A a \in PitchesOf(p) :
            \A msg \in {NoteOff(a, 0), NoteOn(a, 0)} :
                LET q == decode(p, msg).player
                IN  \A i \in Claimed(p) :
                        p.recent_pitches[i] # a =>
                            /\ q.recent_pitches[i] = p.recent_pitches[i]
                            /\ q.states[i].control = GateOn
                            /\ q.states[i] = p.states[i]

\* The map still sends pitch A to a slot that was since reassigned to B, and
\* off(A) drops the map entry without touching the slot.
C3_Witness ==
    LET p == sounds[0]
    IN  \E a \in PitchesOf(p) :
            /\ p.pitch2state[a] # None
            /\ p.recent_pitches[p.pitch2state[a]] \notin {a, None}
            /\ decode(p, NoteOff(a, 0)).player.pitch2state[a] = None
            /\ decode(p, NoteOff(a, 0)).player.states = p.states

\* The slots claimed, in order, by NoteOn messages for the pitches `ps`.
RECURSIVE RunSlots(_, _)
RunSlots(p, ps) ==
    IF ps = <<>> THEN <<>>
    ELSE <<find_next_state(p).selected>>
             \o RunSlots(decode(p, NoteOn(Head(ps), 100)).player, Tail(ps))

DistinctSeqs(S, n) ==
    {f \in [1..n -> S] : \A i, j \in 1..n : i # j => f[i] # f[j]}

\* C4: from every reachable state, N consecutive NoteOn messages with
\* pairwise distinct pitches are given N distinct slots, covering all slots.
C4_RunCoversAllSlots ==
    LET p == sounds[0]
    IN  \A ps \in DistinctSeqs(PitchesOf(p), NumSlots(p)) :
            {RunSlots(p, ps)[k] : k \in 1..NumSlots(p)} = DOMAIN p.recent_pitches

----------------------------------------------------------------------------
(* Properties of the render loop and of the threads around the queue. *)

IsReset(m) == m.msg.type = "SystemReset"

ResetApplied == \E k \in 1..Len(applied) : IsReset(applied[k])

\* A ProgramChange that decode completed: its program is in the table.
IsProgramChange(m) == m.msg.type = "ProgramChange" /\ m.msg.a < TableLen

ProgramChangesApplied ==
    Cardinality({k \in 1..Len(applied) : IsProgramChange(applied[k])})

\* C5: once a SystemReset has been popped, whatever its speaker tag, the
\* render loop has stopped (run_synth returned Ok, its stream dropped), the
\* reset is the last message applied, and from then on no message is applied,
\* no pool changes and no stream is opened.
C5_ResetStopsPlayer ==
    /\ [](ResetApplied =>
            /\ pcOut = "done"
            /\ ~stream
            /\ IsReset(applied[Len(applied)]))
    /\ [][ResetApplied =>
            /\ applied' = applied
            /\ sounds' = sounds
            /\ opened' = opened
            /\ pcOut' = pcOut]_vars

\* A reset tagged for one speaker stopped the loop with a message behind it.
C5_Witness ==
    /\ pcOut = "done"
    /\ midi_msgs # <<>>
    /\ applied # <<>>
    /\ IsReset(applied[Len(applied)])
    /\ applied[Len(applied)].speaker = "Right"

\* C7: a stream is opened once before the first message is popped and once
\* more for each ProgramChange applied, whatever its speaker tag; every
\* other message that does not end the loop is applied with the stream open
\* and leaves it open.
C7_StreamPerProgramChange ==
    /\ [](/\ pcOut \in {"run_output", "warm_up"} => opened = 0
          /\ pcOut \in {"get_stream", "failed"} =>
                 ~stream /\ opened = ProgramChangesApplied
          /\ pcOut = "drain" => stream /\ opened = 1 + ProgramChangesApplied
          /\ pcOut \in {"done", "panicked"} =>
                 ~stream /\ opened = 1 + ProgramChangesApplied)
    /\ [][(applied' # applied
             /\ applied'[Len(applied')].msg.type
                    \in {"NoteOn", "NoteOff", "PitchBend", "AllNotesOff",
                         "AllSoundOff"})
            => stream /\ stream' /\ opened' = opened /\ pcOut' = "drain"]_vars

\* A ProgramChange for one speaker was applied and the stream rebuilt.
C7_Witness ==
    /\ pcOut = "drain"
    /\ opened = 2
    /\ \E k \in 1..Len(applied) :
           IsProgramChange(applied[k]) /\ applied[k].speaker = "Left"

\* C8: the messages applied so far, followed by the messages still queued,
\* are exactly the messages pushed, in push order; a SystemReset can only be
\* the last message applied.
C8_AppliedInQueueOrder ==
    /\ applied \o midi_msgs = enqueued
    /\ \A k \in 1..(Len(applied) - 1) : ~IsReset(applied[k])

\* Warm-up messages and a producer's message were applied, and more wait.
C8_Witness ==
    /\ Len(applied) >= 2
    /\ \E k \in 1..Len(applied) : applied[k].msg.type \notin {"NoteOn", "NoteOff"}
    /\ midi_msgs # <<>>

\* C9: the input thread pushes its reset only while quit holds true, pushes
\* it once, clears quit only after the push and as its last step; and once
\* quit holds true while the thread polls, the thread ends having pushed
\* exactly one reset.
C9_QuitHandshake ==
    /\ [](/\ resets = (IF pcIn \in {"store", "exited"} THEN 1 ELSE 0)
          /\ pcIn \in {"push", "store"} => quit)
    /\ [][/\ resets' # resets => quit /\ quit'
          /\ (quit /\ ~quit') =>
                 resets = 1 /\ pcIn = "store" /\ pcIn' = "exited"]_vars
    /\ ((quit /\ pcIn = "poll") ~> (pcIn = "exited" /\ resets = 1))

\* The thread has pushed its reset, cleared the flag and ended.
C9_Witness ==
    /\ pcIn = "exited"
    /\ resets = 1
    /\ ~quit
    /\ \E k \in 1..Len(enqueued) : IsReset(enqueued[k])

\* The messages pushed up to and including the first SystemReset.
RECURSIVE UpToReset(_)
UpToReset(queue) ==
    IF queue = <<>> THEN <<>>
    ELSE IF IsReset(Head(queue)) THEN <<Head(queue)>>
         ELSE <<Head(queue)>> \o UpToReset(Tail(queue))

OutputExited == pcOut \in {"done", "failed", "panicked", "unsupported"}

\* C10: once quit holds true while the input thread polls, the input thread
\* ends and the output thread ends; when run_synth returns Ok it has applied
\* every message pushed ahead of the first reset, and that reset.
C10_BothThreadsExit ==
    /\ [](pcOut = "done" => applied = UpToReset(enqueued))
    /\ ((quit /\ pcIn = "poll") ~> (pcIn = "exited" /\ OutputExited))

\* Both threads ended after the reset of the input thread was applied.
C10_Witness ==
    /\ pcIn = "exited"
    /\ pcOut = "done"
    /\ resets = 1
    /\ Len(applied) > warm
    /\ midi_msgs = <<>>

----------------------------------------------------------------------------
(* Property of the StereoSynth of lib.rs. *)

\* C6: once Quit has been popped no further message is popped: Quit is the
\* last message popped.
C6_QuitStopsSynth ==
    \A k \in 1..Len(synthPopped) :
        synthPopped[k].kind = "Quit" => k = Len(synthPopped)

----------------------------------------------------------------------------
(* Claims about the master gain and the frame of each message (pool 0). *)

\* The messages that never raise the master gain.
Quieting(p) ==
    {NoteOff(a, 0) : a \in PitchesOf(p)} \cup {PitchBend(b) : b \in Bends}
        \cup {AllNotesOff, AllSoundOff}

\* C11: a ProgramChange applied to a pool leaves its master gain at 0; while
\* the gain is 0, NoteOff, PitchBend, AllNotesOff and AllSoundOff leave it at
\* 0 and a NoteOn with velocity > 0 sets it to 1; and the gain never leaves 0
\* in a step other than such a NoteOn.
C11_MutedUntilNoteOn ==
    /\ [](LET p == sounds[0]
          IN  /\ \A g \in 0..(TableLen - 1) :
                     LET q == decode(p, ProgramChange(g)).player
                     IN  /\ q.master_volume = 0
                         /\ q.synth_func = g
                         /\ \A m \in Quieting(q) :
                                decode(q, m).player.master_volume = 0
              /\ p.master_volume = 0 =>
                     /\ \A m \in Quieting(p) :
                            decode(p, m).player.master_volume = 0
                     /\ \A m \in NoteOnsOf(p) :
                            decode(p, m).player.master_volume = 1)
    /\ [][(sounds[0].master_volume = 0 /\ sounds'[0].master_volume # 0) =>
              /\ sounds'[0].master_volume = 1
              /\ \E m \in NoteOnsOf(sounds[0]) :
                     sounds'[0] = decode(sounds[0], m).player]_vars

\* A pool muted by ProgramChange(1) whose slots were since bent and released
\* while the gain stayed 0.
C11_Witness ==
    LET p == sounds[0]
    IN  /\ p.master_volume = 0
        /\ p.synth_func = 1
        /\ \E i \in DOMAIN p.states :
               /\ p.states[i].pitch_bend # 0
               /\ p.states[i].control = GateOff
        /\ \E a \in PitchesOf(p) : p.pitch2state[a] # None

----------------------------------------------------------------------------
(* Claims about the speaker tags (the two pools driven directly). *)

OnlyBoth(msgs) == \A k \in DOMAIN msgs : msgs[k].speaker = "Both"

MidiOf(tagged) == {m.msg : m \in tagged}

\* C12: while every message applied so far was tagged Both the two pools are
\* in the same state (cursor, slots, pitch map, master gain, program), and a
\* Both message is decoded by pool 0 and by pool 1, the relayed message being
\* that of pool 0 when it relays one.
C12_BothKeepsPoolsEqual ==
    /\ OnlyBoth(applied) => sounds[0] = sounds[1]
    /\ \A msg \in MidiOf(StereoMsgs) \cup {SystemReset} :
           LET out   == StereoDecode(sounds, "Both", msg)
               left  == decode(sounds[0], msg)
               right == decode(sounds[1], msg)
           IN  ~out.panic =>
                   /\ out.sounds[0] = left.player
                   /\ out.sounds[1] = right.player
                   /\ left.relayed # "None" => out.relayed = left.relayed
                   /\ left.relayed = "None" => out.relayed = right.relayed

\* Three Both messages later both pools sound pitch 0 under program 1.
C12_Witness ==
    /\ OnlyBoth(applied)
    /\ Len(applied) = MaxApply
    /\ sounds[1].synth_func = 1
    /\ sounds[1].master_volume = 1
    /\ \E i \in DOMAIN sounds[1].recent_pitches :
           /\ sounds[1].recent_pitches[i] = 0
           /\ sounds[1].states[i].pitch_bend # 0

\* The last message applied.
LastApplied == applied[Len(applied)]

\* C13: a message tagged Left is decoded by pool 0 and leaves pool 1 as it
\* was (slots, cursor, pitch map, master gain, render function); a message
\* tagged Right is decoded by pool 1 and leaves pool 0 as it was.
C13_SideLeavesOtherPool ==
    [][(applied' # applied /\ applied'[Len(applied')].speaker # "Both") =>
          LET m == applied'[Len(applied')]
              i == SpeakerI(m.speaker)
          IN  /\ i = IF m.speaker = "Left" THEN 0 ELSE 1
              /\ sounds'[1 - i] = sounds[1 - i]
              /\ sounds'[i] = decode(sounds[i], m.msg).player]_vars

\* ProgramChange(1) tagged Right reached pool 1 only, after pool 0 claimed a
\* slot that pool 1 did not.
C13_Witness ==
    /\ applied # <<>>
    /\ LastApplied = SynthMsg(ProgramChange(1), "Right")
    /\ sounds[1].synth_func = 1 /\ sounds[1].master_volume = 0
    /\ sounds[0].synth_func = 0 /\ sounds[0].master_volume = 1
    /\ Claimed(sounds[0]) # {} /\ Claimed(sounds[1]) = {}

----------------------------------------------------------------------------
(* Claims about single messages applied to a pool (pool 0). *)

\* C14: AllNotesOff sets the gate of every slot to -1 and marks every slot
\* idle, and leaves the master gain, the cursor and the pitch, velocity and
\* bend of every slot as they were; it relays nothing.
C14_AllNotesOffReleases ==
    LET p   == sounds[0]
        out == decode(p, AllNotesOff)
        q   == out.player
    IN  /\ out.relayed = "None" /\ ~out.panic
        /\ DOMAIN q.states = DOMAIN p.states
        /\ \A i \in DOMAIN p.states :
               /\ q.states[i].control = GateOff
               /\ q.recent_pitches[i] = None
               /\ q.states[i].pitch = p.states[i].pitch
               /\ q.states[i].velocity = p.states[i].velocity
               /\ q.states[i].pitch_bend = p.states[i].pitch_bend
        /\ q.master_volume = p.master_volume
        /\ q.next = p.next
        /\ q.synth_func = p.synth_func

\* AllNotesOff released a sounding slot and a slot that was never claimed:
\* every slot is idle with gate -1, one still carries the default pitch, and
\* the pitch map still holds the entry of the released pitch.
C14_Witness ==
    LET p == sounds[0]
    IN  /\ Claimed(p) = {}
        /\ \A i \in DOMAIN p.states : p.states[i].control = GateOff
        /\ \E i \in DOMAIN p.states : p.states[i].pitch = ZeroHz
        /\ \E a \in PitchesOf(p) : p.pitch2state[a] # None
        /\ p.master_volume = 1

\* C15: AllSoundOff sets the master gain to 0 and changes nothing else: the
\* slots (gate, pitch, velocity, bend), the recent pitches, the pitch map,
\* the cursor and the render function stay as they were, so no slot becomes
\* idle; it relays nothing.
C15_AllSoundOffOnlyMutes ==
    LET p   == sounds[0]
        out == decode(p, AllSoundOff)
        q   == out.player
    IN  /\ out.relayed = "None" /\ ~out.panic
        /\ q.master_volume = 0
        /\ q = [p EXCEPT !.master_volume = 0]
        /\ Claimed(q) = Claimed(p)
        /\ \A i \in Claimed(p) : q.states[i].control = GateOn

\* AllSoundOff muted a pool that keeps a sounding slot: the gain is 0 while a
\* slot is claimed with gate +1.
C15_Witness ==
    LET p == sounds[0]
    IN  /\ p.master_volume = 0
        /\ p.synth_func = 0
        /\ \E i \in Claimed(p) : p.states[i].control = GateOn
        /\ \E i \in DOMAIN p.states \ Claimed(p) : p.states[i].control = 0

\* C16: a NoteOff for a pitch with no pitch-map entry changes nothing in the
\* pool (slots, cursor, pitch map, master gain) and relays nothing, so the
\* render loop keeps running.
C16_OffUnknownPitchNoOp ==
    LET p == sounds[0]
    IN  \A a \in PitchesOf(p) :
            p.pitch2state[a] = None =>
                LET out == decode(p, NoteOff(a, 0))
                IN  /\ out.player = p
                    /\ out.relayed = "None"
                    /\ ~out.panic

\* A pitch without a map entry while the slot under the cursor sounds another
\* pitch.
C16_Witness ==
    LET p == sounds[0]
    IN  /\ p.pitch2state[1] = None
        /\ p.recent_pitches[p.next] = 0
        /\ p.states[p.next].control = GateOn
        /\ decode(p, NoteOff(1, 0)).player.recent_pitches[p.next] = 0

\* C17: when pitch a is bound to slot i (map entry and recent pitch) and some
\* slot is idle, a NoteOn(a, v > 0) claims another slot j and leaves slot i
\* with gate +1 and recent pitch a; the NoteOff(a) that follows releases slot
\* j only, and slot i keeps sounding.
C17_DuplicateOnTakesNewSlot ==
    LET p == sounds[0]
    IN  \A a \in PitchesOf(p) :
            LET i == p.pitch2state[a]
            IN  (i # None /\ p.recent_pitches[i] = a /\ ~AllClaimed(p)) =>
                    \A msg \in {m \in NoteOnsOf(p) : m.a = a} :
                        LET q == decode(p, msg).player
                            j == q.pitch2state[a]
                            r == decode(q, NoteOff(a, 0)).player
                        IN  /\ j # None /\ j # i
                            /\ p.recent_pitches[j] = None
                            /\ q.recent_pitches[j] = a
                            /\ q.states[j].control = GateOn
                            /\ q.recent_pitches[i] = a
                            /\ q.states[i].control = GateOn
                            /\ q.states[i] = p.states[i]
                            /\ r.recent_pitches[j] = None
                            /\ r.states[j].control = GateOff
                            /\ r.recent_pitches[i] = a
                            /\ r.states[i].control = GateOn
                            /\ r.states[i] = p.states[i]

\* The state after the duplicate NoteOn and its NoteOff: a slot still sounds
\* pitch 0 although the pitch map has no entry for it, and another slot, last
\* used for pitch 0 too, is released.
C17_Witness ==
    LET p == sounds[0]
    IN  /\ p.pitch2state[0] = None
        /\ \E i, j \in DOMAIN p.states :
               /\ i # j
               /\ p.recent_pitches[i] = 0
               /\ p.states[i].control = GateOn
               /\ p.recent_pitches[j] = None
               /\ p.states[j].control = GateOff
               /\ p.states[j].pitch = midi_hz(0)
        /\ p.pitch2state[1] = None

\* C18: in a pool of one slot bound to pitch q, a NoteOn(a, v > 0) with
\* a # q steals the slot: afterwards the slot carries pitch a with gate +1
\* and the velocity of the message, the pitch map has an entry for a and none
\* for q, and a NoteOff(q) changes nothing.
C18_SoloSteals ==
    LET p == sounds[0]
    IN  (NumSlots(p) = 1 /\ p.recent_pitches[0] # None) =>
            \A msg \in {m \in NoteOnsOf(p) : m.a # p.recent_pitches[0]} :
                LET old == p.recent_pitches[0]
                    r   == decode(p, msg).player
                IN  /\ r.recent_pitches[0] = msg.a
                    /\ r.states[0].control = GateOn
                    /\ r.states[0].pitch = midi_hz(msg.a)
                    /\ r.states[0].velocity = <<msg.b, MAX_MIDI_VALUE>>
                    /\ r.pitch2state[msg.a] = 0
                    /\ r.pitch2state[old] = None
                    /\ r.next = 0
                    /\ decode(r, NoteOff(old, 0)).player = r

\* The single slot sounds pitch 0 when NoteOn(1, 100) arrives and steals it.
C18_Witness ==
    LET p == sounds[0]
        r == decode(p, NoteOn(1, 100)).player
    IN  /\ NumSlots(p) = 1
        /\ p.recent_pitches[0] = 0
        /\ p.states[0].control = GateOn
        /\ p.pitch2state[0] = 0
        /\ r.recent_pitches[0] = 1
        /\ r.states[0].pitch = midi_hz(1)
        /\ r.pitch2state[0] = None

\* C19: PitchBend(b) sets the bend multiplier of every slot of the pool, idle
\* or claimed, to the one value determined by b, and leaves every gate, pitch
\* and velocity, the recent pitches, the pitch map, the cursor, the master
\* gain and the render function as they were.
C19_BendReachesEverySlot ==
    LET p == sounds[0]
    IN  \A b \in Bends :
            LET out == decode(p, PitchBend(b))
                q   == out.player
            IN  /\ out.relayed = "None" /\ ~out.panic
                /\ \A i \in DOMAIN p.states :
                       /\ q.states[i].pitch_bend = pitch_bend_factor(b)
                       /\ q.states[i] =
                              [p.states[i] EXCEPT !.pitch_bend = pitch_bend_factor(b)]
                /\ q = [p EXCEPT !.states = q.states]

\* Every slot carries the bend of PitchBend(16383), a claimed slot and a slot
\* that was never claimed alike.
C19_Witness ==
    LET p == sounds[0]
    IN  /\ \A i \in DOMAIN p.states :
               p.states[i].pitch_bend = pitch_bend_factor(16383)
        /\ \E i \in Claimed(p) : p.states[i].control = GateOn
        /\ \E i \in DOMAIN p.states \ Claimed(p) : p.states[i].control = 0

\* C20: a NoteOn with velocity 0 is decoded exactly as a NoteOff for the same
\* pitch (same pool afterwards, same relayed message), and it claims no slot,
\* leaves the cursor where it was and leaves the master gain as it was.
C20_ZeroVelocityIsOff ==
    LET p == sounds[0]
    IN  \A a \in PitchesOf(p) :
            LET zero == decode(p, NoteOn(a, 0))
                noff == decode(p, NoteOff(a, 0))
            IN  /\ zero = noff
                /\ zero.player = off(p, a)
                /\ Claimed(zero.player) \subseteq Claimed(p)
                /\ zero.player.next = p.next
                /\ zero.player.master_volume = p.master_volume
                /\ \A i \in DOMAIN p.states :
                       zero.player.states[i].velocity = p.states[i].velocity

\* A muted pool with a sounding pitch 0 and an idle slot under the cursor: the
\* NoteOn(0, 0) releases the slot of pitch 0 and claims nothing.
C20_Witness ==
    LET p == sounds[0]
        q == decode(p, NoteOn(0, 0)).player
    IN  /\ p.master_volume = 0
        /\ p.pitch2state[0] # None
        /\ p.recent_pitches[p.pitch2state[0]] = 0
        /\ p.recent_pitches[p.next] = None
        /\ q.recent_pitches[p.pitch2state[0]] = None
        /\ q.recent_pitches[p.next] = None
        /\ q.master_volume = 0

----------------------------------------------------------------------------
(* Claims about the invariants of a pool (pool 0). *)

\* C25: the pitch map holds only active pitches: whenever pitch2state[a] is
\* Some(i), slot i is bound to a (recent_pitches[i] = Some(a)).
C25_MapHoldsActivePitches ==
    LET p == sounds[0]
    IN  \A a \in PitchesOf(p) :
            p.pitch2state[a] # None => p.recent_pitches[p.pitch2state[a]] = a

\* The slots whose gate is +1.
Active(p) == {i \in DOMAIN p.states : p.states[i].control = GateOn}

\* C26: the slots with gate +1 are the claimed slots, they never number more
\* than the N the pool was built with, and the slot arrays keep their N
\* entries.
C26_ActiveWithinCapacity ==
    LET p == sounds[0]
    IN  /\ DOMAIN p.states = 0..(NMono - 1)
        /\ DOMAIN p.recent_pitches = 0..(NMono - 1)
        /\ Active(p) = Claimed(p)
        /\ Cardinality(Active(p)) <= NMono
        /\ p.next \in 0..(NMono - 1)
        /\ \A a \in PitchesOf(p) : p.pitch2state[a] \in {None} \cup 0..(NMono - 1)
        /\ \A msg \in NoteOnsOf(p) :
               LET q == decode(p, msg).player
               IN  /\ DOMAIN q.states = DOMAIN p.states
                   /\ Cardinality(Active(q)) <= NMono

\* Every slot is active, and one more NoteOn leaves N slots active.
C26_Witness ==
    LET p == sounds[0]
        q == decode(p, NoteOn(1, 100)).player
    IN  /\ Cardinality(Active(p)) = NMono
        /\ AllClaimed(p)
        /\ Cardinality(Active(q)) = NMono
        /\ q.recent_pitches[p.next] = 1
        /\ p.recent_pitches[p.next] = 0

\* C30: a NoteOn(a, v > 0) selects a slot s, the one the cursor has just
\* passed: afterwards slot s has gate +1, the frequency of pitch a and the
\* velocity gain v/127, recent_pitches[s] is a, pitch2state[a] is s and the
\* master gain is 1; the bend multiplier of every slot is as it was.
C30_OnWritesSelectedSlot ==
    LET p == sounds[0]
    IN  \A msg \in NoteOnsOf(p) :
            LET q == decode(p, msg).player
                s == q.pitch2state[msg.a]
            IN  /\ s \in DOMAIN p.states
                /\ (s + 1) % NumSlots(p) = q.next
                /\ q.states[s].control = GateOn
                /\ q.states[s].pitch = midi_hz(msg.a)
                /\ q.states[s].velocity = <<msg.b, MAX_MIDI_VALUE>>
                /\ q.recent_pitches[s] = msg.a
                /\ q.master_volume = 1
                /\ q.synth_func = p.synth_func
                /\ \A i \in DOMAIN p.states :
                       q.states[i].pitch_bend = p.states[i].pitch_bend

\* A muted pool whose slots are bent: NoteOn(1, 100) raises the gain to 1 and
\* writes pitch 1 and velocity 100/127 into the slot it selects, whose bend
\* stays.
C30_Witness ==
    LET p == sounds[0]
        q == decode(p, NoteOn(1, 100)).player
    IN  /\ p.master_volume = 0
        /\ \A i \in DOMAIN p.states : p.states[i].pitch_bend = pitch_bend_factor(16383)
        /\ p.pitch2state[1] = None
        /\ q.master_volume = 1
        /\ q.states[q.pitch2state[1]] =
               [pitch |-> midi_hz(1), velocity |-> <<100, MAX_MIDI_VALUE>>,
                control |-> GateOn, pitch_bend |-> pitch_bend_factor(16383)]

----------------------------------------------------------------------------
(* Claims about run_output and run_synth: warm-up, unknown messages, errors. *)

\* C21: warm_up pushes, for each of the N slots, a NoteOn(0, 0) and then a
\* NoteOff(0), each tagged Both, all of them before the first stream is
\* opened; once a stream was opened the 2N messages are pushed and no
\* further warm-up message is pushed, a rebuild after a ProgramChange
\* included.
C21_WarmUpOnceBeforeStream ==
    /\ [](/\ warm <= 2 * NumSlots(sounds[0])
          /\ opened >= 1 => warm = 2 * NumSlots(sounds[0])
          /\ pcOut \in {"get_stream", "drain", "done"} =>
                 warm = 2 * NumSlots(sounds[0]))
    /\ [][warm' # warm =>
              /\ warm' = warm + 1
              /\ opened = 0 /\ opened' = 0
              /\ pcOut = "warm_up"
              /\ enqueued' = Append(enqueued,
                     SynthMsg(IF warm % 2 = 0 THEN NoteOn(0, 0) ELSE NoteOff(0, 0),
                              "Both"))]_vars

\* The stream was rebuilt after a ProgramChange and the queue received the
\* 2N warm-up messages and nothing else from warm_up.
C21_Witness ==
    /\ opened = 2
    /\ pcOut = "drain"
    /\ warm = 2 * NumSlots(sounds[0])
    /\ \E k \in 1..Len(applied) : IsProgramChange(applied[k])
    /\ midi_msgs = <<>>

\* The message types that an arm of MonoPlayer::decode acts on.
KnownTypes ==
    {"NoteOn", "NoteOff", "PitchBend", "ProgramChange", "AllNotesOff",
     "AllSoundOff", "SystemReset"}

\* C22: a message of any other type leaves both pools as they were and
\* relays nothing, and the render loop that popped it stays in its drain
\* loop with its stream playing and opens no stream.
C22_UnknownMessageIgnored ==
    /\ [](\A i \in 0..1 :
              LET out == decode(sounds[i], OtherMsg)
              IN  out.player = sounds[i] /\ out.relayed = "None" /\ ~out.panic)
    /\ [][(applied' # applied
             /\ applied'[Len(applied')].msg.type \notin KnownTypes) =>
              /\ sounds' = sounds
              /\ pcOut = "drain" /\ pcOut' = "drain"
              /\ stream /\ stream'
              /\ opened' = opened]_vars

\* A message of another type was popped: the loop drains on, one stream
\* opened so far.
C22_Witness ==
    /\ applied # <<>>
    /\ LastApplied.msg = OtherMsg
    /\ pcOut = "drain"
    /\ stream
    /\ opened = 1

\* C23: when the output cannot be set up (no default device or configuration,
\* an unsupported sample format, or the first stream cannot be built),
\* run_output ends by returning an error, with no stream playing, and takes
\* no further step: while no stream has been opened the thread is on its way
\* to the first stream or has returned the error.
C23_SetupFailureReturnsError ==
    opened = 0 =>
        /\ pcOut \in {"run_output", "warm_up", "get_stream", "failed"}
        /\ ~stream
        /\ applied = <<>>

\* C24: messages are popped only while a stream plays; a build of the stream
\* either succeeds, and the drain loop starts with that stream, or fails, and
\* run_synth returns the error; after the error no message is popped and no
\* stream is opened, whatever the producers push.
C24_RebuildFailureIsFatal ==
    /\ [](/\ pcOut = "drain" => stream
          /\ pcOut = "failed" => ~stream)
    /\ [][(pcOut = "get_stream" /\ pcOut' # "get_stream") =>
              \/ pcOut' = "drain" /\ stream' /\ opened' = opened + 1
              \/ pcOut' = "failed" /\ ~stream' /\ opened' = opened]_vars
    /\ [][pcOut = "failed" =>
              /\ pcOut' = "failed"
              /\ applied' = applied
              /\ opened' = opened
              /\ sounds' = sounds
              /\ Len(midi_msgs') >= Len(midi_msgs)]_vars

\* The rebuild after a ProgramChange failed: the thread returned the error
\* with one stream opened in all and a message left in the queue.
C24_Witness ==
    /\ pcOut = "failed"
    /\ opened = 1
    /\ applied # <<>>
    /\ IsProgramChange(LastApplied)
    /\ midi_msgs # <<>>
    /\ ~stream

----------------------------------------------------------------------------
(* Claims about the output callback and the shared values it reads. *)

\* C27: the output callback runs while a stream is open, reads the shared
\* values and changes nothing else: the queue, the pools (slots, recent
\* pitches, pitch map, cursor, master gain) and the position of the render
\* loop stay as they were; a message leaves the queue only when the drain
\* loop of handle_messages pops it.
C27_CallbackOnlyReads ==
    /\ [][heard' # heard =>
              /\ stream
              /\ heard' = Audible(sounds)
              /\ UNCHANGED <<sounds, midi_msgs, enqueued, applied, pcOut, stream,
                             opened, warm, quit, pcIn, resets>>]_vars
    /\ [][midi_msgs' # midi_msgs =>
              \/ /\ Len(midi_msgs') = Len(midi_msgs) + 1
                 /\ enqueued' # enqueued
                 /\ heard' = heard
              \/ /\ midi_msgs # <<>>
                 /\ midi_msgs' = Tail(midi_msgs)
                 /\ pcOut = "drain"
                 /\ applied' = Append(applied, Head(midi_msgs))
                 /\ heard' = heard]_vars

\* The callback rendered a sounding slot while a message waited in the queue.
C27_Witness ==
    /\ stream
    /\ heard = Audible(sounds)
    /\ \E i \in DOMAIN sounds[0].states : heard[0].states[i].control = GateOn
    /\ midi_msgs # <<>>
    /\ pcOut = "drain"

\* C28: on() stores the pitch, then the velocity, then the gate, one field
\* in each store and nothing else; when the call ends the state is the one
\* on() is specified to leave; and whatever the interleaving, every value a
\* reader loads from a field is a value that was stored into that field.
C28_OnStoresFieldByField ==
    /\ [](\A f \in seen.loaded : seen.value[f] \in stored[f])
    /\ []((onPc = 0 /\ onCalls # {}) => cell = StateOn(cell, onArg[1], onArg[2]))
    /\ [][onPc' # onPc /\ onPc # 0 =>
              LET f == OnFields[onPc]
              IN  cell' = [cell EXCEPT ![f] = StateOn(cell, onArg[1], onArg[2])[f]]]_vars

\* A torn frame: the reader holds a pitch and a velocity, both stored by
\* calls of on(), that no call of on() passed together.
C28_Witness ==
    /\ {"pitch", "velocity"} \subseteq seen.loaded
    /\ seen.value.pitch # ZeroHz
    /\ seen.value.velocity[1] # 0
    /\ \A c \in onCalls :
           ~(seen.value.pitch = midi_hz(c[1])
               /\ seen.value.velocity = <<c[2], MAX_MIDI_VALUE>>)

----------------------------------------------------------------------------
(* Claims about the tunings. *)

\* The distance of two frequencies, in units of 1e-7 Hz.
HzDistance(x, y) ==
    LET d == (x.whole - y.whole) * TuneUnit + (x.frac - y.frac)
    IN  IF d < 0 THEN -d ELSE d

\* C29: the frequency of pitch p is that of its pitch class (p mod 12) in
\* the lowest octave, doubled p div 12 times, so the pitch an octave above p
\* has twice the frequency of p; and for the pitches 53..64 it lies within
\* 1e-3 Hz of the table of test_well (less 1e-4 Hz kept in hand for the f32
\* roundings of the program), pitch 57 at 220 Hz.
C29_WellTemperamentByOctave ==
    hz # NotTuned =>
        LET p == midi_pitch
        IN  /\ hz = TimesPow2(well_temperament(p % 12), p \div 12)
            /\ well_temperament(p % 12).whole \in 8..15
            /\ p + 12 \in TunePitches => well_temperament(p + 12) = Double(hz)
            /\ p \in TestPitches => HzDistance(hz, TestHz(p)) <= 9000
            /\ p = 57 => HzDistance(hz, [whole |-> 220, frac |-> 0]) <= 1000

\* Pitch 62, the entry of the table the result is farthest from.
C29_Witness ==
    /\ midi_pitch = 62
    /\ hz # NotTuned
    /\ hz.whole = 293
    /\ HzDistance(hz, TestHz(62)) > 4000

----------------------------------------------------------------------------
(* Claims about the frame of off() and about the cursor (pool 0). *)

\* C31: after off(a) the pitch map has no entry for a, whether or not a slot
\* was released; the cursor, the master gain, the render function, the map
\* entries of every other pitch and every slot other than the one the entry
\* of a pointed to are as they were.
C31_OffClearsMapEntry ==
    LET p == sounds[0]
    IN  \A a \in PitchesOf(p) :
            LET i == p.pitch2state[a]
                q == decode(p, NoteOff(a, 0)).player
            IN  /\ q.pitch2state[a] = None
                /\ q.next = p.next
                /\ q.master_volume = p.master_volume
                /\ q.synth_func = p.synth_func
                /\ \A b \in PitchesOf(p) \ {a} :
                       q.pitch2state[b] = p.pitch2state[b]
                /\ DOMAIN q.states = DOMAIN p.states
                /\ \A j \in DOMAIN p.states \ {i} :
                       /\ q.states[j] = p.states[j]
                       /\ q.recent_pitches[j] = p.recent_pitches[j]

\* A muted pool whose map entry of pitch 0 points to a slot since claimed for
\* pitch 1: off(0) drops the entry and releases nothing.
C31_Witness ==
    LET p == sounds[0]
        q == decode(p, NoteOff(0, 0)).player
    IN  /\ p.master_volume = 0
        /\ p.pitch2state[0] # None
        /\ p.recent_pitches[p.pitch2state[0]] = 1
        /\ q.pitch2state[0] = None
        /\ q.recent_pitches = p.recent_pitches
        /\ q.states = p.states
        /\ q.master_volume = 0

\* The messages that are not a NoteOn with velocity > 0.
NotNoteOns(p) == MidiMsgsOver(PitchesOf(p)) \ NoteOnsOf(p)

\* C32: the cursor always lies in 0..N-1; only on() moves it (every message
\* other than a NoteOn with velocity > 0 leaves it where it was); and after
\* on(a, v) it is one past the slot that on() claimed, modulo N, when an idle
\* slot was claimed and when the slot under the cursor was stolen.
C32_CursorFollowsClaim ==
    /\ [](LET p == sounds[0]
          IN  /\ p.next \in 0..(NumSlots(p) - 1)
              /\ \A m \in NotNoteOns(p) : decode(p, m).player.next = p.next
              /\ \A m \in NoteOnsOf(p) :
                     LET q == decode(p, m).player
                         s == q.pitch2state[m.a]
                     IN  /\ s \in 0..(NumSlots(p) - 1)
                         /\ q.recent_pitches[s] = m.a
                         /\ AllClaimed(p) => s = p.next
                         /\ ~AllClaimed(p) => p.recent_pitches[s] = None
                         /\ q.next = (s + 1) % NumSlots(p)
                         /\ q.next \in 0..(NumSlots(p) - 1))
    /\ [][sounds'[0].next # sounds[0].next =>
              \E m \in NoteOnsOf(sounds[0]) :
                  /\ sounds'[0] = decode(sounds[0], m).player
                  /\ sounds'[0].next =
                         (sounds'[0].pitch2state[m.a] + 1) % NumSlots(sounds[0])]_vars

\* Every slot is claimed and the cursor is on the last slot: the NoteOn steals
\* the last slot and the cursor wraps around to slot 0.
C32_Witness ==
    LET p == sounds[0]
        q == decode(p, NoteOn(1, 100)).player
    IN  /\ AllClaimed(p)
        /\ p.next = NumSlots(p) - 1
        /\ p.next # 0
        /\ q.pitch2state[1] = p.next
        /\ q.next = 0

----------------------------------------------------------------------------
(* start_midi_output_thread: the relay thread between the queue of MidiMsg  *)
(* that the producers fill and the queue of SynthMsg that the player drains. *)

\* Messages pushed onto the input queue, in total.
MaxRelay == 2

\* The messages the producers of the input queue push: one that a pool
\* absorbs, one that rebuilds the stream, one that ends the loop.
RelayMsgs == {NoteOn(0, 100), NoteOff(0, 0), ProgramChange(1), SystemReset}

InitRelay ==
    /\ sounds = [i \in 0..1 |-> MonoPlayerNew(NPlayer, Pitches)]
    /\ claimOrder = <<>>
    /\ pcOut = "run_output"
    /\ InitIo
    /\ InitSynth
    /\ InitAudio
    /\ InitRest

\* A producer (the callback of start_midi_input_thread, or the client)
\* pushes a MidiMsg onto the input queue.
MidiPush ==
    /\ Len(in_pushed) < MaxRelay
    /\ \E m \in RelayMsgs :
           /\ in_msgs' = Append(in_msgs, m)
           /\ in_pushed' = Append(in_pushed, m)
    /\ UNCHANGED <<sounds, claimOrder, pcOut, ioVars, synthVars, audioVars,
                   tuneVars, relay_msg, forwarded, demoVars, live>>

\* A variant that takes the newest message of the queue, not the oldest.
RelayPopNewest ==
    /\ relay_msg = <<>>
    /\ in_msgs # <<>>
    /\ relay_msg' = <<in_msgs[Len(in_msgs)]>>
    /\ in_msgs' = SubSeq(in_msgs, 1, Len(in_msgs) - 1)
    /\ UNCHANGED <<sounds, claimOrder, pcOut, ioVars, synthVars, audioVars,
                   tuneVars, in_pushed, forwarded, demoVars, live>>

\* The relay thread: midi_msgs.pop() returned Some(msg).
RelayPop ==
    /\ relay_msg = <<>>
    /\ in_msgs # <<>>
    /\ relay_msg' = <<Head(in_msgs)>>
    /\ in_msgs' = Tail(in_msgs)
    /\ UNCHANGED <<sounds, claimOrder, pcOut, ioVars, synthVars, audioVars,
                   tuneVars, in_pushed, forwarded, demoVars, live>>

\* A variant that tags the message for the left speaker.
RelayTagLeft(msg) == SynthMsg(msg, "Left")

\* The SynthMsg the relay thread builds from the message it popped.
RelayTag(msg) == SynthMsg(msg, "Both")

\* The relay thread: relay_out.push(SynthMsg { msg, speaker: Speaker::Both }).
RelayPush ==
    /\ relay_msg # <<>>
    /\ Push(RelayTag(relay_msg[1]))
    /\ forwarded' = Append(forwarded, RelayTag(relay_msg[1]))
    /\ relay_msg' = <<>>
    /\ UNCHANGED <<sounds, claimOrder, pcOut, quit, pcIn, warm, stream, opened,
                   resets, applied, synthVars, audioVars, tuneVars, in_msgs,
                   in_pushed, demoVars, live>>

RelayThread == RelayPop \/ RelayPush

NextRelay == MidiPush \/ RelayThread \/ OutputThread

SpecRelay == InitRelay /\ [][NextRelay]_vars

----------------------------------------------------------------------------
(* Claim about the relay thread. *)

\* The MidiMsg of each SynthMsg of a sequence.
MsgsOf(seq) == [k \in 1..Len(seq) |-> seq[k].msg]

\* C33: the messages the relay thread has pushed onto the player's queue,
\* then the one it holds, then those still in the input queue, are exactly
\* the messages pushed onto the input queue, in push order (none dropped,
\* none twice, none out of order); each is pushed tagged Both, as the popped
\* message and at the end of the player's queue; and the player's queue
\* receives nothing else but the warm-up messages.
C33_RelayForwardsInOrder ==
    /\ [](/\ MsgsOf(forwarded) \o relay_msg \o in_msgs = in_pushed
          /\ \A k \in 1..Len(forwarded) : forwarded[k].speaker = "Both"
          /\ Len(enqueued) = warm + Len(forwarded)
          /\ Len(relay_msg) <= 1)
    /\ [][forwarded' # forwarded =>
              /\ relay_msg # <<>>
              /\ forwarded' = Append(forwarded, SynthMsg(relay_msg[1], "Both"))
              /\ midi_msgs' = Append(midi_msgs, SynthMsg(relay_msg[1], "Both"))
              /\ in_msgs' = in_msgs]_vars
    /\ [][in_msgs' # in_msgs =>
              \/ in_pushed' # in_pushed /\ forwarded' = forwarded
              \/ /\ in_msgs # <<>>
                 /\ in_msgs' = Tail(in_msgs)
                 /\ relay_msg' = <<Head(in_msgs)>>
                 /\ midi_msgs' = midi_msgs]_vars

\* Two different messages went through the relay, in push order, and the
\* player applied both: the second, a SystemReset, ended its loop.
C33_Witness ==
    /\ Len(forwarded) = 2
    /\ forwarded[1] = SynthMsg(NoteOn(0, 100), "Both")
    /\ forwarded[2] = SynthMsg(SystemReset, "Both")
    /\ in_pushed = <<NoteOn(0, 100), SystemReset>>
    /\ in_msgs = <<>>
    /\ pcOut = "done"
    /\ applied[Len(applied)] = forwarded[2]

----------------------------------------------------------------------------
(* Claims about the pitch map and the slots bound to a pitch (pool 0). *)

\* The slots bound to pitch a.
BoundTo(p, a) == {i \in DOMAIN p.recent_pitches : p.recent_pitches[i] = a}

\* The slot of S claimed last, by the claim order `order` (oldest first).
LatestOf(order, S) ==
    order[CHOOSE k \in 1..Len(order) :
              /\ order[k] \in S
              /\ \A j \in (k + 1)..Len(order) : order[j] \notin S]

\* C34 as stated: whenever some slot is bound to pitch a, the map entry of a
\* points to the slot claimed last among the slots bound to a.
C34_MapPointsToLatestBound ==
    LET p == sounds[0]
    IN  \A a \in PitchesOf(p) :
            BoundTo(p, a) # {} =>
                p.pitch2state[a] = LatestOf(claimOrder, BoundTo(p, a))

\* C34 as amended: whenever pitch a has a map entry and some slot is bound to
\* a, the entry points to the slot claimed last among the slots bound to a,
\* and off(a) releases that slot and no other; a slot may stay bound to a
\* with no map entry for a.
C34_MappedSlotIsLatestBound ==
    LET p == sounds[0]
    IN  /\ \A i \in Claimed(p) : \E k \in 1..Len(claimOrder) : claimOrder[k] = i
        /\ \A a \in PitchesOf(p) :
               LET i == p.pitch2state[a]
                   q == decode(p, NoteOff(a, 0)).player
               IN  (i # None /\ BoundTo(p, a) # {}) =>
                       /\ i = LatestOf(claimOrder, BoundTo(p, a))
                       /\ p.recent_pitches[i] = a
                       /\ q.states[i].control = GateOff
                       /\ q.recent_pitches[i] = None
                       /\ BoundTo(q, a) = BoundTo(p, a) \ {i}
                       /\ \A j \in BoundTo(q, a) : q.states[j].control = GateOn

\* Two slots are bound to pitch 0 and the map entry points to the one claimed
\* last: off(0) releases it and the older one keeps sounding.
C34_Witness ==
    LET p == sounds[0]
        q == decode(p, NoteOff(0, 0)).player
    IN  /\ Cardinality(BoundTo(p, 0)) = 2
        /\ p.pitch2state[0] = claimOrder[Len(claimOrder)]
        /\ Cardinality(BoundTo(q, 0)) = 1
        /\ q.pitch2state[0] = None
        /\ q.states[p.pitch2state[0]].control = GateOff

\* C35: for every slot i, recent_pitches[i] is Some(a) exactly when the gate
\* of slot i is +1, and then the frequency of the slot is that of pitch a; a
\* slot whose recent pitch is None has its gate at the initial value 0 or at
\* released (-1).
C35_RecentPitchIffGateOn ==
    LET p == sounds[0]
    IN  \A i \in DOMAIN p.states :
            /\ (p.recent_pitches[i] # None) <=> (p.states[i].control = GateOn)
            /\ p.recent_pitches[i] # None =>
                   /\ p.recent_pitches[i] \in PitchesOf(p)
                   /\ p.states[i].pitch = midi_hz(p.recent_pitches[i])
            /\ p.recent_pitches[i] = None =>
                   p.states[i].control \in {SharedMidiStateDefault.control, GateOff}

\* One slot sounds pitch 1, with the frequency of pitch 1; the other is idle
\* with gate -1 and still carries the frequency of pitch 1, and pitch 1 has
\* no map entry.
C35_Witness ==
    LET p == sounds[0]
    IN  \E i, j \in DOMAIN p.states :
            /\ p.recent_pitches[i] = 1
            /\ p.states[i].control = GateOn
            /\ p.states[i].pitch = midi_hz(1)
            /\ p.recent_pitches[j] = None
            /\ p.states[j].control = GateOff
            /\ p.states[j].pitch = midi_hz(1)
            /\ p.pitch2state[1] = None

----------------------------------------------------------------------------
(* The places where an operation of MonoPlayer can panic: an index out of   *)
(* the bounds of an array, and the unwrap of the recent pitch of a slot.     *)

\* find_next_state: no slot is idle, and the unwrap of the recent pitch of
\* the cursor's slot fails or the pitch it yields is no index of pitch2state.
FindNextStatePanics(p) ==
    /\ IdleSteps(p) = {}
    /\ \/ p.next \notin DOMAIN p.recent_pitches
       \/ p.recent_pitches[p.next] = None
       \/ p.recent_pitches[p.next] \notin PitchesOf(p)

\* on: pitch2state[pitch] is out of bounds, or find_next_state panics.
OnPanics(p, pitch) == pitch \notin PitchesOf(p) \/ FindNextStatePanics(p)

\* off: pitch2state[pitch] or recent_pitches[i] is out of bounds.
OffPanics(p, pitch) ==
    \/ pitch \notin PitchesOf(p)
    \/ /\ p.pitch2state[pitch] # None
       /\ p.pitch2state[pitch] \notin DOMAIN p.recent_pitches

\* decode of a note, bend or channel-mode message panics.
MonoPanics(p, msg) ==
    CASE msg.type = "NoteOn"  -> IF msg.b = 0 THEN OffPanics(p, msg.a)
                                              ELSE OnPanics(p, msg.a)
      [] msg.type = "NoteOff" -> OffPanics(p, msg.a)
      [] OTHER                -> FALSE

\* NoteOn, NoteOff, PitchBend, AllNotesOff and AllSoundOff messages.
VoiceMsgs(p) ==
    {m \in MidiMsgsOver(PitchesOf(p)) :
        m.type \in {"NoteOn", "NoteOff", "PitchBend", "AllNotesOff", "AllSoundOff"}}

\* C36: in every state that NoteOn, NoteOff, PitchBend, AllNotesOff and
\* AllSoundOff messages lead to, every index stored in pitch2state is below
\* N, every recent pitch is an index of pitch2state, the steal branch of
\* find_next_state finds the cursor's slot claimed, and none of these
\* messages makes decode panic.
C36_VoiceMessagesNeverPanic ==
    LET p == sounds[0]
    IN  /\ \A a \in PitchesOf(p) :
               p.pitch2state[a] \in {None} \cup 0..(NumSlots(p) - 1)
        /\ \A i \in DOMAIN p.recent_pitches :
               p.recent_pitches[i] \in {None} \cup PitchesOf(p)
        /\ DOMAIN p.states = DOMAIN p.recent_pitches
        /\ p.next \in DOMAIN p.recent_pitches
        /\ IdleSteps(p) = {} => p.recent_pitches[p.next] \in PitchesOf(p)
        /\ \A m \in VoiceMsgs(p) :
               /\ ~MonoPanics(p, m)
               /\ ~decode(p, m).panic
               /\ decode(p, m).relayed = "None"

\* Every slot is claimed, both for pitch 0, and the map entry of pitch 0
\* points away from the cursor's slot: the NoteOn that steals the cursor's
\* slot unwraps its recent pitch and clears that entry without a panic.
C36_Witness ==
    LET p == sounds[0]
        q == decode(p, NoteOn(1, 100)).player
    IN  /\ AllClaimed(p)
        /\ BoundTo(p, 0) = DOMAIN p.recent_pitches
        /\ p.pitch2state[0] \notin {None, p.next}
        /\ ~MonoPanics(p, NoteOn(1, 100))
        /\ q.pitch2state[0] = None
        /\ q.pitch2state[1] = p.next

----------------------------------------------------------------------------
(* Claim about ProgramChange messages beyond the program table. *)

\* The pools a speaker tag addresses.
PoolsOf(speaker) == IF speaker = "Both" THEN {0, 1} ELSE {SpeakerI(speaker)}

\* C37: whenever the last message applied is a ProgramChange, for any
\* program a MIDI message can carry (one not smaller than the number of
\* entries of the table included), decode completed without a panic and the
\* render function of every pool it addressed is the entry of that program.
C37_ProgramChangeSelectsEntry ==
    (applied # <<>> /\ LastApplied.msg.type = "ProgramChange") =>
        /\ pcOut # "panicked"
        /\ \A i \in PoolsOf(LastApplied.speaker) :
               sounds[i].synth_func = LastApplied.msg.a

----------------------------------------------------------------------------
(* examples/msg_view_demo.rs: main, run_chooser and run_midi_show_thread    *)
(* beside the input thread. The flag `reset` of main is the `quit` of the    *)
(* input thread, and incoming_msgs is its `midi_msgs`. The player that       *)
(* drains outgoing_msgs is the one of Spec.                                  *)

\* Turns of the loop of main.
MaxSessions == 2
\* Sounds picked in the menu.
MaxChoices == 1

InitDemo ==
    /\ sounds = [i \in 0..1 |-> MonoPlayerNew(NPlayer, Pitches)]
    /\ claimOrder = <<>>
    /\ pcOut = "run_output"
    /\ midi_msgs = <<>>
    /\ quit = FALSE
    /\ pcIn = "none"
    /\ warm = 0
    /\ stream = FALSE
    /\ opened = 0
    /\ enqueued = <<>>
    /\ resets = 0
    /\ applied = <<>>
    /\ InitSynth
    /\ InitAudio
    /\ in_msgs = <<>>
    /\ relay_msg = <<>>
    /\ in_pushed = <<>>
    /\ forwarded = <<>>
    /\ pcMain = "loop"
    /\ mainQuit = FALSE
    /\ picked = FALSE
    /\ sessions = 0
    /\ outgoing_msgs = <<>>
    /\ choices = 0
    /\ live = 0

\* while !quit: the loop of main ends once run_chooser set quit.
MainLoop ==
    /\ pcMain = "loop"
    /\ IF mainQuit THEN pcMain' = "done" /\ sessions' = sessions
       ELSE /\ sessions < MaxSessions
            /\ sessions' = sessions + 1
            /\ pcMain' = "choose"
    /\ UNCHANGED <<sounds, claimOrder, pcOut, ioVars, synthVars, audioVars,
                   tuneVars, relayVars, mainQuit, picked, outgoing_msgs,
                   choices, live>>

\* MidiInput::new and choose_midi_device return Ok.
MainChooseOk ==
    /\ pcMain = "choose"
    /\ pcMain' = "wait"
    /\ UNCHANGED <<sounds, claimOrder, pcOut, ioVars, synthVars, audioVars,
                   tuneVars, relayVars, mainQuit, picked, sessions,
                   outgoing_msgs, choices, live>>

\* One of them returns an error, which main returns with `?`.
MainChooseErr ==
    /\ pcMain = "choose"
    /\ pcMain' = "failed"
    /\ UNCHANGED <<sounds, claimOrder, pcOut, ioVars, synthVars, audioVars,
                   tuneVars, relayVars, mainQuit, picked, sessions,
                   outgoing_msgs, choices, live>>

\* while reset.load() {}: left once a load returns false.
MainWait ==
    /\ pcMain = "wait"
    /\ ~quit
    /\ pcMain' = "start"
    /\ UNCHANGED <<sounds, claimOrder, pcOut, ioVars, synthVars, audioVars,
                   tuneVars, relayVars, mainQuit, picked, sessions,
                   outgoing_msgs, choices, live>>

\* The two queues are created, the three threads are started and
\* run_chooser is called.
MainStart ==
    /\ pcMain = "start"
    /\ midi_msgs' = <<>>
    /\ outgoing_msgs' = <<>>
    /\ pcIn' = "connect"
    /\ picked' = FALSE
    /\ pcMain' = "check"
    /\ UNCHANGED <<sounds, claimOrder, pcOut, quit, warm, stream, opened,
                   enqueued, resets, applied, synthVars, audioVars, tuneVars,
                   relayVars, mainQuit, sessions, choices, live>>

\* run_chooser: while !*quit && !reset.load().
ChooserCheck ==
    /\ pcMain = "check"
    /\ pcMain' = IF ~mainQuit /\ ~quit THEN "menu" ELSE "loop"
    /\ UNCHANGED <<sounds, claimOrder, pcOut, ioVars, synthVars, audioVars,
                   tuneVars, relayVars, mainQuit, picked, sessions,
                   outgoing_msgs, choices, live>>

\* Choice 0: a sound of the table is picked and its ProgramChange pushed.
MenuSound ==
    /\ pcMain = "menu"
    /\ choices < MaxChoices
    /\ \E program \in 0..(TableLen - 1) :
           outgoing_msgs' =
               Append(outgoing_msgs, SynthMsg(ProgramChange(program), "Both"))
    /\ choices' = choices + 1
    /\ pcMain' = "check"
    /\ UNCHANGED <<sounds, claimOrder, pcOut, ioVars, synthVars, audioVars,
                   tuneVars, relayVars, mainQuit, picked, sessions, live>>

\* Choice 1, 'Pick New MIDI Device': reset.store(true).
MenuDevice ==
    /\ pcMain = "menu"
    /\ quit' = TRUE
    /\ picked' = TRUE
    /\ pcMain' = "check"
    /\ UNCHANGED <<sounds, claimOrder, pcOut, midi_msgs, pcIn, warm, stream,
                   opened, enqueued, resets, applied, synthVars, audioVars,
                   tuneVars, relayVars, mainQuit, sessions, outgoing_msgs,
                   choices, live>>

\* Choice 2, 'Quit': *quit = true.
MenuQuit ==
    /\ pcMain = "menu"
    /\ mainQuit' = TRUE
    /\ pcMain' = "check"
    /\ UNCHANGED <<sounds, claimOrder, pcOut, ioVars, synthVars, audioVars,
                   tuneVars, relayVars, picked, sessions, outgoing_msgs,
                   choices, live>>

\* run_midi_show_thread: a message popped from incoming_msgs is printed and
\* pushed onto outgoing_msgs.
ShowThread ==
    /\ midi_msgs # <<>>
    /\ outgoing_msgs' = Append(outgoing_msgs, Head(midi_msgs))
    /\ midi_msgs' = Tail(midi_msgs)
    /\ UNCHANGED <<sounds, claimOrder, pcOut, quit, pcIn, warm, stream, opened,
                   enqueued, resets, applied, synthVars, audioVars, tuneVars,
                   relayVars, pcMain, mainQuit, picked, sessions, choices,
                   live>>

MainThread ==
    MainLoop \/ MainChooseOk \/ MainChooseErr \/ MainWait \/ MainStart
        \/ ChooserCheck \/ MenuSound \/ MenuDevice \/ MenuQuit

NextDemo == MainThread \/ InputThread \/ Callback \/ ShowThread

SpecDemo == InitDemo /\ [][NextDemo]_vars

\* C38: once run_chooser has stored true into the flag ('Pick New MIDI
\* Device'), its next test of the loop condition ends the loop: it does not
\* show the menu again in the same call.
C38_PickDeviceLeavesChooser == pcMain = "menu" => ~picked

----------------------------------------------------------------------------
(* Claims about the warm-up messages and the streams of run_synth. *)

\* The messages applied so far are the first messages of warm_up, in order.
WarmUpOnly ==
    /\ Len(applied) <= warm
    /\ \A k \in 1..Len(applied) : applied[k] = WarmUpMsg(k - 1)

\* C39: while the only messages applied are warm-up messages, up to all 2N
\* of them, both pools are as MonoPlayer::new built them: no slot is
\* claimed, the cursor is 0, every gate has its initial value, the pitch map
\* is empty and the master gain is 1; and no stream was rebuilt.
C39_WarmUpLeavesPoolsInitial ==
    WarmUpOnly =>
        /\ \A i \in 0..1 :
               /\ sounds[i] = MonoPlayerNew(NumSlots(sounds[i]), Pitches)
               /\ Claimed(sounds[i]) = {}
               /\ sounds[i].next = 0
               /\ \A s \in DOMAIN sounds[i].states :
                      sounds[i].states[s].control = SharedMidiStateDefault.control
               /\ \A a \in PitchesOf(sounds[i]) : sounds[i].pitch2state[a] = None
               /\ sounds[i].master_volume = 1
        /\ opened <= 1
        /\ pcOut # "panicked"

\* All 2N warm-up messages were applied, and nothing else yet: a message of a
\* producer waits behind them.
C39_Witness ==
    /\ WarmUpOnly
    /\ Len(applied) = 2 * NumSlots(sounds[0])
    /\ warm = 2 * NumSlots(sounds[0])
    /\ pcOut = "drain"
    /\ midi_msgs # <<>>
    /\ sounds[0] = MonoPlayerNew(NumSlots(sounds[0]), Pitches)

\* C40: at most one stream exists at any time: a stream exists exactly
\* while the loop of handle_messages runs, get_stream builds a stream only
\* when the stream of the turn before was dropped, and a message is popped
\* only while a stream is open and playing.
C40_OneStreamAtATime ==
    /\ [](/\ live \in {0, 1}
          /\ (live = 1) <=> stream
          /\ (live = 1) <=> (pcOut = "drain")
          /\ pcOut = "get_stream" => live = 0)
    /\ [][opened' # opened =>
              /\ live = 0 /\ ~stream
              /\ live' = 1 /\ stream']_vars
    /\ [][applied' # applied => live = 1 /\ stream]_vars
    /\ [][live' < live =>
              /\ applied' # applied
              /\ pcOut' \in {"get_stream", "done", "panicked"}]_vars

\* The second stream plays, the first was dropped, and a warm-up message was
\* popped under the second stream.
C40_Witness ==
    /\ opened = 2
    /\ live = 1
    /\ stream
    /\ applied # <<>>
    /\ LastApplied.msg.type = "NoteOff"
    /\ \E k \in 1..Len(applied) : IsProgramChange(applied[k])

=============================================================================
